---- MODULE Spec2Model ----
(***************************************************************************)
(* A model of the workflow engine of app/engine/engine.py: one run of a    *)
(* stored graph, driven by WorkflowEngine.run_workflow and                 *)
(* WorkflowEngine._execute_workflow, with the node handlers the engine     *)
(* looks up in node_functions (Spec); the engine's stores with concurrent  *)
(* runs (EngineSpec); and one run with the websockets of                   *)
(* app/api/routes.py observing it (ObserverSpec, StalledSpec).             *)
(***************************************************************************)
EXTENDS Naturals, Sequences, FiniteSets, TLC

VARIABLES
    graph,            \* the GraphDefinition being run (self.graphs[graph_id])
    initial_state,    \* run_workflow's initial_state argument
    run,              \* the WorkflowRun record: status, current_node, state, logs
    current_node,     \* _execute_workflow's local current_node
    visited_nodes,    \* _execute_workflow's local visited_nodes
    iteration_count,  \* _execute_workflow's local iteration_count
    next_node,        \* _execute_workflow's local next_node
    loop_condition,   \* _execute_workflow's local loop_condition
    invoked,          \* the nodes whose handler was called, in call order
    pc,               \* where run_workflow stands: idle, loop, invoke, done
    heap,             \* the mutable objects state values refer to, by address
    graphs,           \* WorkflowEngine.graphs: graph_id -> GraphDefinition
    runs,             \* WorkflowEngine.runs: run_id -> WorkflowRun
    tasks,            \* the run_workflow coroutines in flight, by run_id
    returned,         \* what each finished run_workflow call returned
    errors,           \* the exceptions engine calls raised to their callers
    websocket_connections, \* WorkflowEngine.websocket_connections
    btasks,           \* the _broadcast_log tasks, in creation order
    sockets           \* the observers' websockets and their endpoints

\* The locals and arguments of the single run followed step by step.
svars == <<graph, initial_state, run, current_node, visited_nodes,
           iteration_count, next_node, loop_condition, invoked, pc>>

\* The engine object's stores and the coroutines of the event loop.
evars == <<graphs, runs, tasks, returned, errors, websocket_connections,
           btasks, sockets>>

vars == <<svars, heap, evars>>

----------------------------------------------------------------------------
(* Values *)

\* Python's None, for Optional[str] node names.
None == "None"

\* A Python bool held by a local that may also be unbound (None here).
PyBool(b) == IF b THEN "True" ELSE "False"

\* NodeStatus (models.py)
PENDING == "pending"
RUNNING == "running"
COMPLETED == "completed"
FAILED == "failed"

\* A cap two iterations higher.
max_iterations_raised == 100 + 2

\* The cap of _execute_workflow.
max_iterations == 100

\* The longest chain graph that is run.
MaxChain == 101

\* The mapping with no key ({} in Python).
EmptyDict == [k \in {} |-> 0]

\* An update that keeps only the new entries.
MergeReplace(d1, d2) == d2

\* d1 overridden by d2: {**d1, **d2}, dict.update.
Merge(d1, d2) ==
    [k \in (DOMAIN d1) \cup (DOMAIN d2) |-> IF k \in DOMAIN d2 THEN d2[k] ELSE d1[k]]

----------------------------------------------------------------------------
(* The handler registry: node_functions. A handler maps the state to       *)
(* either a returned mapping or an exception.                              *)

\* The names registered with register_function.
BasicFunctions == {"noop", "increment", "fail"}
\* The tools of the code review: ToolRegistry._register_default_tools.
ReviewFunctions ==
    {"extract_functions", "check_complexity", "detect_issues",
     "suggest_improvements", "calculate_quality_score"}
RegisteredFunctions ==
    BasicFunctions \cup {"append", "append_fail", "text", "annotate", "annotate_low"}
       \cup ReviewFunctions

\* state.get(key, default)
Get(state, key, default) ==
    IF key \in DOMAIN state.data THEN state.data[key] ELSE default

\* The text under "code" is given by what the tools read off it: the number
\* of def lines, of def lines without a docstring, of lines longer than 100
\* characters (an even number, no TODO/FIXME in the text), and of "if ",
\* "for " and "while " in the text. No code: the empty text.
NoCode == [defs |-> 0, undocumented |-> 0, long_lines |-> 0, branches |-> 0]

\* The lists the tools return are given by their lengths (complexity_scores
\* by its length and the complexity every entry has).
ExtractFunctions(state) ==
    LET code == Get(state, "code", NoCode)
    IN  [k \in {"functions", "function_count"} |-> code.defs]

CheckComplexity(state) ==
    LET code == Get(state, "code", NoCode)
    IN  [k \in {"complexity_scores"} |->
            [count |-> Get(state, "functions", 0), complexity |-> 1 + code.branches]]

DetectIssues(state) ==
    LET code == Get(state, "code", NoCode)
    IN  ("issues" :> [documentation |-> code.undocumented, style |-> code.long_lines])
        @@ ("issue_count" :> code.undocumented + code.long_lines)
        @@ ("severity_counts" :>
               [high |-> 0, medium |-> code.undocumented, low |-> code.long_lines])

SuggestImprovements(state) ==
    LET scores == Get(state, "complexity_scores", [count |-> 0, complexity |-> 0])
        issues == Get(state, "issues", [documentation |-> 0, style |-> 0])
        n == (IF scores.complexity > 5 THEN scores.count ELSE 0)
             + (IF issues.documentation > 2 THEN 1 ELSE 0)
             + (IF issues.style > 5 THEN 1 ELSE 0)
    IN  [k \in {"suggestions", "suggestion_count"} |-> n]

Min(a, b) == IF a <= b THEN a ELSE b
Max(a, b) == IF a >= b THEN a ELSE b

\* calculate_quality_score: 10, less 3 or 1 for the average complexity,
\* less 2, 1 and 0.5 per issue of high, medium and low severity, plus 1
\* when there are functions, kept within 0..10.
QualityScore(state) ==
    LET function_count == Get(state, "function_count", 0)
        avg_complexity == Get(state, "average_complexity", 0)
        severity_counts == Get(state, "severity_counts",
                               [high |-> 0, medium |-> 0, low |-> 0])
        base_score == 10
                      - (IF avg_complexity > 10 THEN 3
                         ELSE IF avg_complexity > 5 THEN 1 ELSE 0)
                      - severity_counts.high * 2
                      - severity_counts.medium
                      - (severity_counts.low \div 2)
                      + (IF function_count > 0 THEN 1 ELSE 0)
    IN  Max(0, Min(10, base_score))

QualityLevel(quality_score) ==
    IF quality_score >= 8 THEN "excellent"
    ELSE IF quality_score >= 6 THEN "good"
    ELSE IF quality_score >= 4 THEN "fair" ELSE "poor"

CalculateQualityScore(state) ==
    ("quality_score" :> QualityScore(state))
    @@ ("quality_level" :> QualityLevel(QualityScore(state)))

\* A function name no register_function call gave.
UnregisteredFunction == "missing"

\* What calling the handler registered under fn does with the state:
\* noop returns {}, increment returns {"score": score + 1}, fail raises,
\* append does state.data["items"].append("x") and returns None (a KeyError
\* when the state has no items), append_fail appends likewise and then
\* raises, text returns the string "ok".
CallHandler(fn, state) ==
    CASE fn = "noop" -> [raised |-> FALSE, result |-> EmptyDict]
      [] fn = "increment" ->
            [raised |-> FALSE,
             result |-> [k \in {"score"} |->
                            (IF "score" \in DOMAIN state.data
                                THEN state.data["score"] ELSE 0) + 1]]
      [] fn = "fail" -> [raised |-> TRUE, result |-> <<"handler error">>]
      [] fn = "append" ->
            IF "items" \in DOMAIN state.data
            THEN [raised |-> FALSE, result |-> EmptyDict]
            ELSE [raised |-> TRUE, result |-> <<"'items'">>]
      [] fn = "append_fail" ->
            IF "items" \in DOMAIN state.data
            THEN [raised |-> TRUE, result |-> <<"handler error">>]
            ELSE [raised |-> TRUE, result |-> <<"'items'">>]
      [] fn = "text" -> [raised |-> FALSE, result |-> <<"ok">>]
      [] fn \in {"annotate", "annotate_low"} ->
            [raised |-> FALSE, result |-> EmptyDict]
      [] fn = "extract_functions" ->
            [raised |-> FALSE, result |-> ExtractFunctions(state)]
      [] fn = "check_complexity" ->
            [raised |-> FALSE, result |-> CheckComplexity(state)]
      [] fn = "detect_issues" ->
            [raised |-> FALSE, result |-> DetectIssues(state)]
      [] fn = "suggest_improvements" ->
            [raised |-> FALSE, result |-> SuggestImprovements(state)]
      [] fn = "calculate_quality_score" ->
            [raised |-> FALSE, result |-> CalculateQualityScore(state)]

\* Whether what the handler returns is a dict (isinstance(result, dict)):
\* text returns a str, append and the annotating handlers return None.
ReturnsMapping(fn) == fn \notin {"text", "append", "annotate", "annotate_low"}

\* What the call does to state.metadata: annotate does
\* state.metadata["score"] = 9, annotate_low state.metadata["score"] = 4;
\* no other handler touches it.
HandlerMetadata(fn, state) ==
    CASE fn = "annotate" -> Merge(state.metadata, [k \in {"score"} |-> 9])
      [] fn = "annotate_low" -> Merge(state.metadata, [k \in {"score"} |-> 4])
      [] OTHER -> state.metadata

\* What the call does to the objects the state refers to: append and
\* append_fail extend the list at state.data["items"] in place.
HandlerHeap(fn, state, h) ==
    IF fn \in {"append", "append_fail"} /\ "items" \in DOMAIN state.data
    THEN [h EXCEPT ![state.data["items"]] = Append(@, "x")]
    ELSE h

----------------------------------------------------------------------------
(* Graphs *)

NodeName(i) == "n" \o ToString(i)

\* The condition strings of the graphs: key op value, as in "score >= 7".
Cond(k, o, v) == [key |-> k, op |-> o, value |-> v]
Conditions == {Cond("score", ">=", 7), Cond("score", "<", 7), Cond("score", ">=", 6)}

\* A chain n1 -> n2 -> ... -> nn of simple edges, closed by an edge
\* nn -> n1 when back is TRUE.
ChainGraph(n, back) ==
    LET names == [i \in 1..n |-> NodeName(i)]
        IndexOf(s) == CHOOSE i \in 1..n : names[i] = s
        last == IF back THEN n ELSE n - 1
    IN  [nodes |-> [i \in 1..n |-> [name |-> names[i], function_name |-> "noop"]],
         edges |-> [s \in {names[i] : i \in 1..last} |->
                        IF IndexOf(s) = n THEN names[1] ELSE names[IndexOf(s) + 1]],
         conditional_edges |-> EmptyDict,
         start_node |-> names[1]]

ChainGraphs == {ChainGraph(n, back) : n \in 1..MaxChain, back \in BOOLEAN}

\* The ordered conditional edges of one node: at most two entries, their
\* conditions distinct (they are the keys of a dict).
ConditionalLists(targets) ==
    LET Entry == [condition : Conditions, next_node : targets]
    IN  {<<>>} \cup {<<e>> : e \in Entry}
        \cup {<<p[1], p[2]>> :
                 p \in {q \in Entry \X Entry : q[1].condition # q[2].condition}}

\* A partial mapping from names to targets, given as one choice per name
\* (None: no entry).
DictOf(choice) == [k \in {n \in DOMAIN choice : choice[n] # None} |-> choice[k]]

\* The two-node graphs: calculate (start, handler increment) and done, with
\* every choice of simple edges (also to a node absent from the graph), of
\* calculate's conditional edges, and of done's handler.
SmallGraphs ==
    {[nodes |-> <<[name |-> "calculate", function_name |-> "increment"],
                  [name |-> "done", function_name |-> fd]>>,
      edges |-> DictOf([calculate |-> ec, done |-> ed]),
      conditional_edges |->
          IF cl = <<>> THEN EmptyDict ELSE [k \in {"calculate"} |-> cl],
      start_node |-> "calculate"] :
        fd \in BasicFunctions \cup {UnregisteredFunction},
        ec \in {None, "calculate", "done", "absent"},
        ed \in {None, "calculate", "absent"},
        cl \in ConditionalLists({"calculate", "done"})}

\* Conditions whose evaluation raises: "flag >= 0" (no flag in the state),
\* "score => 7" (not an expression), "len(score) >= 1" (len of a number);
\* and one that evaluates.
RaisingConditions ==
    {Cond("flag", ">=", 0), Cond("score", "=>", 7), Cond("score", "len>=", 1)}
EvalConditions == RaisingConditions \cup {Cond("score", ">=", 6)}

\* The two-node graphs whose conditional edges out of calculate carry
\* these conditions (to calculate, to done, or to a node absent from the
\* graph), with or without a simple edge to done or back to calculate.
EvalGraphs ==
    LET Entry == [condition : EvalConditions,
                  next_node : {"calculate", "done", "absent"}]
        Lists == {<<e>> : e \in Entry}
                 \cup {<<p[1], p[2]>> :
                          p \in {q \in Entry \X Entry :
                                    q[1].condition # q[2].condition}}
    IN  {[nodes |-> <<[name |-> "calculate", function_name |-> "increment"],
                      [name |-> "done", function_name |-> "noop"]>>,
          edges |-> DictOf([calculate |-> ec]),
          conditional_edges |-> [k \in {"calculate"} |-> cl],
          start_node |-> "calculate"] :
            ec \in {None, "done", "calculate"}, cl \in Lists}

\* The chains of one or two nodes whose handlers may append to the list
\* the state holds under "items".
HeapGraphs ==
    {[nodes |-> <<[name |-> "collect", function_name |-> f1]>>,
      edges |-> EmptyDict, conditional_edges |-> EmptyDict,
      start_node |-> "collect"] : f1 \in {"append", "increment"}}
    \cup
    {[nodes |-> <<[name |-> "collect", function_name |-> f1],
                  [name |-> "report", function_name |-> f2]>>,
      edges |-> [k \in {"collect"} |-> "report"],
      conditional_edges |-> EmptyDict,
      start_node |-> "collect"] :
        f1 \in {"append", "increment", "text"},
        f2 \in {"append", "increment", "fail", "append_fail"}}

\* The chains of 99 and of 100 nodes whose last node has a conditional
\* edge, never taken (score stays 5), to a node absent from the graph.
DanglingChains ==
    {[ChainGraph(n, FALSE) EXCEPT
         !.conditional_edges =
             [k \in {NodeName(n)} |->
                 <<[condition |-> Cond("score", ">=", 7), next_node |-> "absent"]>>]] :
       n \in {max_iterations - 1, max_iterations}}

\* The graphs whose start node's handler writes "score" into
\* state.metadata (9 or 4), followed by calculate with every choice of
\* conditional edges and with or without a simple edge to done.
MetadataGraphs ==
    {[nodes |-> <<[name |-> "annotate", function_name |-> fa],
                  [name |-> "calculate", function_name |-> "increment"],
                  [name |-> "done", function_name |-> "noop"]>>,
      edges |-> DictOf([annotate |-> "calculate", calculate |-> ec]),
      conditional_edges |->
          IF cl = <<>> THEN EmptyDict ELSE [k \in {"calculate"} |-> cl],
      start_node |-> "annotate"] :
        fa \in {"annotate", "annotate_low"},
        ec \in {None, "done"},
        cl \in ConditionalLists({"calculate", "done"})}

Graphs ==
    ChainGraphs \cup SmallGraphs \cup EvalGraphs \cup DanglingChains
       \cup MetadataGraphs

\* The initial_state arguments of run_workflow.
InitialStates == {[k \in {"score"} |-> 5]}

\* An initial_state holding a list: "items" refers to the object at
\* address 1 of the heap, the list ["a"].
HeapInitialStates == {[k \in {"score", "items"} |-> IF k = "score" THEN 5 ELSE 1]}
InitialHeap == <<(<<"a">>)>>

\* create_code_review_workflow: the graph of the code review.
CodeReviewGraph ==
    [nodes |-> <<[name |-> "extract_functions", function_name |-> "extract_functions"],
                 [name |-> "check_complexity", function_name |-> "check_complexity"],
                 [name |-> "detect_issues", function_name |-> "detect_issues"],
                 [name |-> "suggest_improvements",
                  function_name |-> "suggest_improvements"],
                 [name |-> "calculate_quality",
                  function_name |-> "calculate_quality_score"],
                 [name |-> "final_review",
                  function_name |-> "calculate_quality_score"]>>,
     edges |-> ("extract_functions" :> "check_complexity")
               @@ ("check_complexity" :> "detect_issues")
               @@ ("detect_issues" :> "suggest_improvements")
               @@ ("suggest_improvements" :> "calculate_quality"),
     conditional_edges |->
         [k \in {"calculate_quality"} |->
             <<[condition |-> Cond("quality_score", ">=", 7),
                next_node |-> "final_review"],
               [condition |-> Cond("quality_score", "<", 7),
                next_node |-> "suggest_improvements"]>>],
     start_node |-> "extract_functions"]

\* The texts given to the code review, and the initial states of its runs:
\* the text under "code", with or without an average_complexity.
ReviewCodes ==
    {c \in [defs : {0, 1, 5}, undocumented : {0, 1, 5},
            long_lines : {0, 2, 8}, branches : {0, 5}] :
        c.undocumented <= c.defs}
ReviewInitialStates ==
    {[k \in {"code"} |-> c] : c \in ReviewCodes}
    \cup {("code" :> c) @@ ("average_complexity" :> 11) : c \in ReviewCodes}

----------------------------------------------------------------------------
(* Pure parts of the engine *)

\* Whether eval of the condition raises: a NameError when the key is not
\* in the context, a SyntaxError when the operator is not Python's, a
\* TypeError for len() of a number (every key a condition names holds a
\* number).
ConditionRaises(state, condition) ==
    \/ condition.key \notin DOMAIN Merge(state.data, state.metadata)
    \/ condition.op \notin {">=", "<"}

\* An evaluation that reads >= as >.
EvaluateConditionStrict(state, condition) ==
    LET context == Merge(state.data, state.metadata)
    IN  IF ConditionRaises(state, condition)
        THEN FALSE
        ELSE CASE condition.op = ">=" -> context[condition.key] > condition.value
               [] condition.op = "<" -> context[condition.key] < condition.value

\* An evaluation whose except branch returns True.
EvaluateConditionErrorTrue(state, condition) ==
    LET context == Merge(state.data, state.metadata)
    IN  IF ConditionRaises(state, condition)
        THEN TRUE
        ELSE CASE condition.op = ">=" -> context[condition.key] >= condition.value
               [] condition.op = "<" -> context[condition.key] < condition.value

\* An evaluation over {**state.metadata, **state.data}.
EvaluateConditionDataWins(state, condition) ==
    LET context == Merge(state.metadata, state.data)
    IN  IF ConditionRaises(state, condition)
        THEN FALSE
        ELSE CASE condition.op = ">=" -> context[condition.key] >= condition.value
               [] condition.op = "<" -> context[condition.key] < condition.value

\* engine.py _evaluate_condition: eval of the condition over
\* {**state.data, **state.metadata}; any exception gives False.
EvaluateCondition(state, condition) ==
    LET context == Merge(state.data, state.metadata)
    IN  IF ConditionRaises(state, condition)
        THEN FALSE
        ELSE CASE condition.op = ">=" -> context[condition.key] >= condition.value
               [] condition.op = "<" -> context[condition.key] < condition.value

\* A scan that does not return at the first condition that holds: the last
\* one that holds decides.
RECURSIVE ScanConditionsLastWins(_, _, _, _)
ScanConditionsLastWins(state, conditions, i, fallback) ==
    IF i > Len(conditions) THEN fallback
    ELSE ScanConditionsLastWins(state, conditions, i + 1,
             IF EvaluateCondition(state, conditions[i].condition)
             THEN conditions[i].next_node ELSE fallback)

\* The for loop of _get_next_node over conditions.items(), from entry i on:
\* the next_node of the first condition that holds, or the simple edge.
RECURSIVE ScanConditions(_, _, _, _)
ScanConditions(state, conditions, i, fallback) ==
    IF i > Len(conditions) THEN fallback
    ELSE IF EvaluateCondition(state, conditions[i].condition)
         THEN conditions[i].next_node
         ELSE ScanConditions(state, conditions, i + 1, fallback)

\* graph.edges.get(node)
SimpleEdge(g, node) == IF node \in DOMAIN g.edges THEN g.edges[node] ELSE None

\* A resolution that looks at the simple edge before the conditional edges.
GetNextNodeSimpleFirst(state, g, node) ==
    IF node \in DOMAIN g.edges
    THEN g.edges[node]
    ELSE IF node \in DOMAIN g.conditional_edges
         THEN ScanConditions(state, g.conditional_edges[node], 1, None)
         ELSE None

\* engine.py _get_next_node
GetNextNode(state, g, node) ==
    IF node \in DOMAIN g.conditional_edges
    THEN ScanConditions(state, g.conditional_edges[node], 1, SimpleEdge(g, node))
    ELSE SimpleEdge(g, node)

\* A loop check that always lets the loop go on.
CheckLoopConditionAlways(state, g, node) == TRUE

\* engine.py _check_loop_condition
CheckLoopCondition(state, g, node) ==
    /\ node \in DOMAIN g.conditional_edges
    /\ \E i \in 1..Len(g.conditional_edges[node]) :
          EvaluateCondition(state, g.conditional_edges[node][i].condition)

\* next((n for n in graph.nodes if n.name == current_node), None)
NodeDefs(g, name) == {i \in 1..Len(g.nodes) : g.nodes[i].name = name}
NodeDef(g, name) ==
    g.nodes[CHOOSE i \in NodeDefs(g, name) : \A j \in NodeDefs(g, name) : i <= j]

\* A test that lets a run that used up its iterations pass.
IterationLimitExceeded(count) == count > max_iterations

\* The test after the while loop of _execute_workflow.
IterationLimitReached(count) == count >= max_iterations

\* The end of _execute_node: "if result and isinstance(result, dict):
\* run.state.update(result)", and WorkflowState.update.
Merged(r, fn, result) ==
    IF ReturnsMapping(fn) /\ DOMAIN result # {}
    THEN [r EXCEPT !.state.data = Merge(@, result)]
    ELSE r

\* The exception messages, as the pieces of their f-strings.
NodeNotFoundError(name) == <<"Node ", name, " not found in graph">>
NotRegisteredErrorUnnamed(function_name) == <<"Function not registered">>
NotRegisteredError(function_name) == <<"Function ", function_name, " not registered">>
IterationLimitError == <<"Maximum iterations reached - possible infinite loop">>

\* engine.py _add_log: the entry appended to run.logs, with a copy of
\* state.data.
LogEntry(state, node_name, status, message) ==
    [node_name |-> node_name, status |-> status, message |-> message,
     state_snapshot |-> state.data]

\* An _add_log that appends its entry twice.
AddLogTwice(r, node_name, status, message) ==
    [r EXCEPT !.logs = Append(Append(@, LogEntry(r.state, node_name, status, message)),
                              LogEntry(r.state, node_name, status, message))]

AddLog(r, node_name, status, message) ==
    [r EXCEPT !.logs = Append(@, LogEntry(r.state, node_name, status, message))]

\* An except branch that logs the failure and leaves the status as it is.
WorkflowFailedStatusKept(r, e) ==
    AddLog(r, "ERROR", FAILED, <<"Workflow failed: ">> \o e)

\* An except branch that rolls the state back to an empty one.
WorkflowFailedStateCleared(r, e) ==
    AddLog([r EXCEPT !.status = FAILED, !.state.data = EmptyDict],
           "ERROR", FAILED, <<"Workflow failed: ">> \o e)

\* run_workflow's except branch: the run fails with exception message e.
WorkflowFailed(r, e) ==
    AddLog([r EXCEPT !.status = FAILED], "ERROR", FAILED, <<"Workflow failed: ">> \o e)

\* A run_workflow that does not set the status after _execute_workflow
\* returned.
AfterLoopStatusKept(r, count) ==
    IF IterationLimitReached(count)
    THEN WorkflowFailed(r, IterationLimitError)
    ELSE r

\* The end of _execute_workflow after its loop, and run_workflow's handling
\* of it: the iteration-limit error, or status completed.
AfterLoop(r, count) ==
    IF IterationLimitReached(count)
    THEN WorkflowFailed(r, IterationLimitError)
    ELSE [r EXCEPT !.status = COMPLETED, !.completed_at = "now"]

----------------------------------------------------------------------------
(* The run *)

\* No engine-level call is in flight: the engine's stores are empty.
EngineIdle ==
    /\ graphs = EmptyDict
    /\ runs = EmptyDict
    /\ tasks = EmptyDict
    /\ returned = EmptyDict
    /\ errors = <<>>
    /\ websocket_connections = EmptyDict
    /\ btasks = <<>>
    /\ sockets = EmptyDict

Init ==
    /\ \/ graph \in Graphs /\ initial_state \in InitialStates /\ heap = <<>>
       \/ graph = CodeReviewGraph /\ initial_state \in ReviewInitialStates
          /\ heap = <<>>
       \/ graph \in HeapGraphs /\ initial_state \in HeapInitialStates
          /\ heap = InitialHeap
    /\ EngineIdle
    /\ run = [status |-> PENDING, current_node |-> None,
              state |-> [data |-> initial_state, metadata |-> EmptyDict],
              logs |-> <<>>, completed_at |-> None]
    /\ current_node = None
    /\ visited_nodes = {}
    /\ iteration_count = 0
    /\ next_node = None
    /\ loop_condition = None
    /\ invoked = <<>>
    /\ pc = "idle"

\* run_workflow up to the while loop of _execute_workflow.
RunWorkflow ==
    /\ pc = "idle"
    /\ pc' = "loop"
    /\ current_node' = graph.start_node
    /\ visited_nodes' = {}
    /\ iteration_count' = 0
    /\ UNCHANGED <<heap, evars>>
    /\ UNCHANGED <<graph, initial_state, run, next_node, loop_condition, invoked>>

\* The while test fails: the loop ends.
LoopExit ==
    /\ pc = "loop"
    /\ ~(current_node # None /\ iteration_count < max_iterations)
    /\ run' = AfterLoop(run, iteration_count)
    /\ pc' = "done"
    /\ UNCHANGED <<heap, evars>>
    /\ UNCHANGED <<graph, initial_state, current_node, visited_nodes,
                   iteration_count, next_node, loop_condition, invoked>>

\* An iteration whose current_node names no node of the graph.
NodeNotFound ==
    /\ pc = "loop"
    /\ current_node # None /\ iteration_count < max_iterations
    /\ NodeDefs(graph, current_node) = {}
    /\ iteration_count' = iteration_count + 1
    /\ run' = WorkflowFailed(run, NodeNotFoundError(current_node))
    /\ pc' = "done"
    /\ UNCHANGED <<heap, evars>>
    /\ UNCHANGED <<graph, initial_state, current_node, visited_nodes,
                   next_node, loop_condition, invoked>>

\* An iteration whose node names a function that is not registered:
\* _execute_node raises before any call.
FunctionNotRegistered ==
    /\ pc = "loop"
    /\ current_node # None /\ iteration_count < max_iterations
    /\ NodeDefs(graph, current_node) # {}
    /\ LET node_def == NodeDef(graph, current_node)
           e == NotRegisteredError(node_def.function_name)
           r1 == AddLog([run EXCEPT !.current_node = current_node], current_node,
                        RUNNING, <<"Executing node ", current_node>>)
           r2 == AddLog(r1, current_node, FAILED,
                        <<"Node ", current_node, " failed: ">> \o e)
       IN  /\ node_def.function_name \notin RegisteredFunctions
           /\ run' = WorkflowFailed(r2, e)
    /\ iteration_count' = iteration_count + 1
    /\ pc' = "done"
    /\ UNCHANGED <<heap, evars>>
    /\ UNCHANGED <<graph, initial_state, current_node, visited_nodes,
                   next_node, loop_condition, invoked>>

\* An iteration up to the call of the node's handler.
StartNode ==
    /\ pc = "loop"
    /\ current_node # None /\ iteration_count < max_iterations
    /\ NodeDefs(graph, current_node) # {}
    /\ NodeDef(graph, current_node).function_name \in RegisteredFunctions
    /\ iteration_count' = iteration_count + 1
    /\ run' = AddLog([run EXCEPT !.current_node = current_node], current_node,
                     RUNNING, <<"Executing node ", current_node>>)
    /\ invoked' = Append(invoked, current_node)
    /\ pc' = "invoke"
    /\ UNCHANGED <<heap, evars>>
    /\ UNCHANGED <<graph, initial_state, current_node, visited_nodes, next_node,
                   loop_condition>>

\* The handler raises: the node fails and the run with it.
HandlerRaises ==
    /\ pc = "invoke"
    /\ LET out == CallHandler(NodeDef(graph, current_node).function_name, run.state)
       IN  /\ out.raised
           /\ run' = WorkflowFailed(
                        AddLog(run, current_node, FAILED,
                               <<"Node ", current_node, " failed: ">> \o out.result),
                        out.result)
    /\ heap' = HandlerHeap(NodeDef(graph, current_node).function_name, run.state, heap)
    /\ pc' = "done"
    /\ UNCHANGED evars
    /\ UNCHANGED <<graph, initial_state, current_node, visited_nodes,
                   iteration_count, next_node, loop_condition, invoked>>

\* The handler returns: its result is merged, the node is logged completed,
\* the successor is resolved and the loop/terminate policy applied.
HandlerReturns ==
    /\ pc = "invoke"
    /\ LET out == CallHandler(NodeDef(graph, current_node).function_name, run.state)
           annotated == [run EXCEPT !.state.metadata =
                            HandlerMetadata(NodeDef(graph, current_node).function_name,
                                            run.state)]
           merged == Merged(annotated, NodeDef(graph, current_node).function_name,
                            out.result)
           r1 == AddLog(merged, current_node, COMPLETED,
                        <<"Node ", current_node, " completed">>)
           nxt == GetNextNode(r1.state, graph, current_node)
       IN  /\ ~out.raised
           /\ next_node' = nxt
           /\ loop_condition' =
                  IF nxt \in visited_nodes
                  THEN PyBool(CheckLoopCondition(r1.state, graph, current_node))
                  ELSE loop_condition
           /\ IF nxt \in visited_nodes /\ loop_condition' = "False"
              THEN /\ run' = AfterLoop(r1, iteration_count)
                   /\ pc' = "done"
                   /\ UNCHANGED <<current_node, visited_nodes>>
              ELSE /\ run' = r1
                   /\ pc' = "loop"
                   /\ visited_nodes' = visited_nodes \cup {current_node}
                   /\ current_node' = nxt
    /\ heap' = HandlerHeap(NodeDef(graph, current_node).function_name, run.state, heap)
    /\ UNCHANGED evars
    /\ UNCHANGED <<graph, initial_state, iteration_count, invoked>>

Next ==
    \/ RunWorkflow
    \/ LoopExit
    \/ NodeNotFound
    \/ FunctionNotRegistered
    \/ StartNode
    \/ HandlerRaises
    \/ HandlerReturns

Spec == Init /\ [][Next]_vars

----------------------------------------------------------------------------
(* What the properties below read off a state *)

\* The run-level entries of the log are those run_workflow appends under
\* the node name "ERROR".
IsRunLevel(entry) == entry.node_name = "ERROR"

\* The last node-level entry of the log, if any: the last entry, or the one
\* before a closing run-level entry.
HasNodeEntry ==
    /\ Len(run.logs) > 0
    /\ IsRunLevel(run.logs[Len(run.logs)]) => Len(run.logs) > 1
LastNodeEntry ==
    IF IsRunLevel(run.logs[Len(run.logs)])
    THEN run.logs[Len(run.logs) - 1]
    ELSE run.logs[Len(run.logs)]

\* The handler of run.current_node has returned and no later node has
\* started: next_node is the successor resolved for run.current_node in the
\* present state.
Resolved ==
    /\ pc \in {"loop", "done"}
    /\ HasNodeEntry
    /\ LastNodeEntry.status = COMPLETED
    /\ LastNodeEntry.node_name = run.current_node

\* The conditional edges of a node, in declared order (none: the empty list).
ConditionalEdges(node) ==
    IF node \in DOMAIN graph.conditional_edges
    THEN graph.conditional_edges[node] ELSE <<>>

\* The positions of the conditional edges of node whose predicate is true in
\* the run's present state.
TrueConditions(node) ==
    {i \in 1..Len(ConditionalEdges(node)) :
        EvaluateCondition(run.state, ConditionalEdges(node)[i].condition)}

\* The loop of _execute_workflow was left by its break.
StoppedByPolicy == loop_condition = "False"

----------------------------------------------------------------------------
(* C1 *)

\* C1 (as claimed): whenever the successor resolved for the node that has
\* just completed is already in visited_nodes, the run stops there with
\* status completed and no further handler call if none of the node's
\* conditional predicates is true, and moves on to the successor if one is.
C1_LoopTerminatePolicy ==
    [][(/\ pc = "invoke"
        /\ Len(run'.logs) > Len(run.logs)
        /\ run'.logs[Len(run.logs) + 1].status = COMPLETED
        /\ next_node' \in visited_nodes)
       => IF ~CheckLoopCondition(run'.state, graph, current_node)
          THEN /\ pc' = "done"
               /\ run'.status = COMPLETED
               /\ invoked' = invoked
          ELSE /\ pc' = "loop"
               /\ current_node' = next_node']_vars

----------------------------------------------------------------------------
(* C2 *)

\* The least element of a non-empty set of positions.
First(S) == CHOOSE i \in S : \A j \in S : i <= j

\* C2: once a node with conditional edges has completed and some of its
\* predicates are true, the successor resolved is the target of the true
\* predicate declared first, whatever later predicates are true as well.
C2_FirstTruePredicateWins ==
    (Resolved /\ TrueConditions(run.current_node) # {})
    => next_node =
         ConditionalEdges(run.current_node)[First(TrueConditions(run.current_node))].next_node

\* Two predicates of the completed node are true, they name different
\* targets, and the successor is the target of the first.
C2_Witness ==
    /\ Resolved
    /\ \E i, j \in TrueConditions(run.current_node) :
          /\ i < j
          /\ ConditionalEdges(run.current_node)[i].next_node
                # ConditionalEdges(run.current_node)[j].next_node
          /\ next_node = ConditionalEdges(run.current_node)[i].next_node

----------------------------------------------------------------------------
(* C3 *)

\* C3: once a node that has a simple edge and a true conditional predicate
\* has completed, the successor resolved is the target of one of its true
\* predicates, and that successor (not the simple-edge target) is the node
\* the run goes on with.
C3_ConditionalBeforeSimpleEdge ==
    (/\ Resolved
     /\ run.current_node \in DOMAIN graph.edges
     /\ TrueConditions(run.current_node) # {})
    => /\ next_node \in {ConditionalEdges(run.current_node)[i].next_node :
                            i \in TrueConditions(run.current_node)}
       /\ current_node = next_node

\* A completed node with a true conditional predicate and a simple edge to
\* another target: the run goes on with the conditional target.
C3_Witness ==
    /\ Resolved
    /\ pc = "loop"
    /\ run.current_node \in DOMAIN graph.edges
    /\ TrueConditions(run.current_node) # {}
    /\ graph.edges[run.current_node]
          \notin {ConditionalEdges(run.current_node)[i].next_node :
                     i \in TrueConditions(run.current_node)}
    /\ current_node # graph.edges[run.current_node]
    /\ current_node \in {ConditionalEdges(run.current_node)[i].next_node :
                            i \in TrueConditions(run.current_node)}

----------------------------------------------------------------------------
(* C4 *)

\* C4 (as claimed): once a node none of whose conditional predicates is
\* true has completed, the successor resolved is its simple-edge target;
\* when it has no simple edge there is no successor, and the run, once
\* ended, has status completed.
C4_SimpleEdgeFallback ==
    (Resolved /\ TrueConditions(run.current_node) = {})
    => /\ next_node = SimpleEdge(graph, run.current_node)
       /\ (run.current_node \notin DOMAIN graph.edges /\ pc = "done")
             => (next_node = None /\ run.status = COMPLETED)

----------------------------------------------------------------------------
(* C5 *)

\* The targets of the edges, simple and conditional, that leave node n.
Successors(g, n) ==
    (IF n \in DOMAIN g.edges THEN {g.edges[n]} ELSE {})
    \cup (IF n \in DOMAIN g.conditional_edges
          THEN {g.conditional_edges[n][i].next_node :
                   i \in 1..Len(g.conditional_edges[n])}
          ELSE {})

\* The node names reachable from start_node along the edges.
RECURSIVE ReachableFrom(_, _, _)
ReachableFrom(g, frontier, seen) ==
    IF frontier = {} THEN seen
    ELSE LET new == (UNION {Successors(g, n) : n \in frontier}) \ seen
         IN  ReachableFrom(g, new, seen \cup new)
Reachable(g) == ReachableFrom(g, {g.start_node}, {g.start_node})

\* What is left of S after removing, again and again, the names none of
\* whose edges leads into what is left: empty exactly when S has no cycle.
RECURSIVE Peel(_, _)
Peel(g, S) ==
    LET sinks == {n \in S : Successors(g, n) \cap S = {}}
    IN  IF sinks = {} THEN S ELSE Peel(g, S \ sinks)
Acyclic(g) == Peel(g, Reachable(g)) = {}

\* Every reachable name is a node of the graph whose handler is registered
\* and returns.
AllNodesRunnable(g) ==
    \A n \in Reachable(g) :
        /\ NodeDefs(g, n) # {}
        /\ NodeDef(g, n).function_name \in RegisteredFunctions
        /\ ~CallHandler(NodeDef(g, n).function_name, run.state).raised

\* How often node n was invoked.
Invocations(n) == Cardinality({i \in 1..Len(invoked) : invoked[i] = n})

\* C5 (as claimed, for the graphs of at most max_iterations nodes, whose
\* runs the cap of 100 invocations cannot cut short): a run of a graph with
\* no cycle reachable from start_node, all of whose reachable nodes exist
\* and have a registered handler that returns, invokes no node twice and
\* ends with status completed at a node for which no successor is resolved.
C5_AcyclicRunCompletes ==
    (/\ pc = "done"
     /\ Len(graph.nodes) <= max_iterations
     /\ Acyclic(graph)
     /\ AllNodesRunnable(graph))
    => /\ \A n \in Reachable(graph) : Invocations(n) <= 1
       /\ run.status = COMPLETED
       /\ GetNextNode(run.state, graph, run.current_node) = None

----------------------------------------------------------------------------
(* C6 *)

\* The run-level entry run_workflow appends for exception message e.
RunLevelError(e) ==
    [node_name |-> "ERROR", status |-> FAILED,
     message |-> <<"Workflow failed: ">> \o e,
     state_snapshot |-> run.state.data]

\* C6: a run that has made max_iterations invocations, the last of which
\* returned and left a successor to go on with, has status failed and the
\* iteration-limit error as its last log entry; and no run has status
\* completed while a successor is still to be executed.
C6_IterationLimitFails ==
    pc = "done" =>
       /\ (/\ Len(invoked) = max_iterations
           /\ Resolved
           /\ ~StoppedByPolicy
           /\ current_node # None)
          => /\ run.status = FAILED
             /\ run.logs[Len(run.logs)] = RunLevelError(IterationLimitError)
       /\ run.status = COMPLETED => (current_node = None \/ StoppedByPolicy)

\* A run cut by the cap: 100 invocations made, a successor pending, failed.
C6_Witness ==
    /\ pc = "done"
    /\ Len(invoked) = max_iterations
    /\ Resolved
    /\ ~StoppedByPolicy
    /\ current_node # None
    /\ run.status = FAILED
    /\ run.logs[Len(run.logs)] = RunLevelError(IterationLimitError)

----------------------------------------------------------------------------
(* C7 *)

\* The graph of the scenario: calculate, whose handler adds 1 to score, with
\* the conditional edges score >= 7 -> done and score < 7 -> calculate, in
\* that order, and done.
ScenarioGraph ==
    [nodes |-> <<[name |-> "calculate", function_name |-> "increment"],
                 [name |-> "done", function_name |-> "noop"]>>,
     edges |-> EmptyDict,
     conditional_edges |->
         [k \in {"calculate"} |->
             <<[condition |-> Cond("score", ">=", 7), next_node |-> "done"],
               [condition |-> Cond("score", "<", 7), next_node |-> "calculate"]>>],
     start_node |-> "calculate"]

Scenario == graph = ScenarioGraph /\ initial_state = [k \in {"score"} |-> 5]

\* C7 (as claimed): the run of the scenario ends at node done, completed,
\* after exactly 3 invocations of calculate.
C7_ThreeInvocations ==
    (Scenario /\ pc = "done")
    => /\ run.status = COMPLETED
       /\ run.current_node = "done"
       /\ Invocations("calculate") = 3

\* C7 (amended): the run of the scenario ends at node done, completed, after
\* exactly 2 invocations of calculate (score 5 -> 6 -> 7), done being
\* invoked once, after them.
C7_TwoInvocations ==
    (Scenario /\ pc = "done")
    => /\ run.status = COMPLETED
       /\ run.current_node = "done"
       /\ invoked = <<"calculate", "calculate", "done">>
       /\ run.state.data["score"] = 7

\* The scenario's run has ended, at done.
C7_Witness ==
    /\ Scenario
    /\ pc = "done"
    /\ run.current_node = "done"
    /\ Invocations("calculate") = 2

----------------------------------------------------------------------------
(* C8 *)

\* The graph is the chain of its n nodes, simple edges only.
IsChain ==
    /\ graph.start_node = NodeName(1)
    /\ graph = ChainGraph(Len(graph.nodes), FALSE)

\* C8 (as claimed, for the chains of at most max_iterations nodes, whose
\* runs the cap of 100 invocations cannot cut short): the run of a chain of
\* n nodes ends with status completed, run.current_node the last node, and
\* a log of exactly 2n entries: for each node in chain order a RUNNING
\* entry then a COMPLETED entry, and no run-level entry.
C8_ChainRunLog ==
    (pc = "done" /\ IsChain /\ Len(graph.nodes) <= max_iterations)
    => LET n == Len(graph.nodes)
       IN  /\ run.status = COMPLETED
           /\ run.current_node = NodeName(n)
           /\ Len(run.logs) = 2 * n
           /\ \A i \in 1..Len(run.logs) : ~IsRunLevel(run.logs[i])
           /\ \A i \in 1..n :
                 /\ 2 * i <= Len(run.logs)
                 /\ run.logs[2 * i - 1].node_name = NodeName(i)
                 /\ run.logs[2 * i - 1].status = RUNNING
                 /\ run.logs[2 * i].node_name = NodeName(i)
                 /\ run.logs[2 * i].status = COMPLETED

----------------------------------------------------------------------------
(* C9 *)

\* The fatal condition the step from the present state meets, if any, as
\* the message of its exception: a node name absent from the graph, a
\* function name not registered, a handler that raises, the iteration limit.
NodeIsMissing ==
    /\ pc = "loop" /\ current_node # None /\ iteration_count < max_iterations
    /\ \A i \in 1..Len(graph.nodes) : graph.nodes[i].name # current_node
HandlerIsMissing ==
    /\ pc = "loop" /\ current_node # None /\ iteration_count < max_iterations
    /\ \E i \in 1..Len(graph.nodes) : graph.nodes[i].name = current_node
    /\ NodeDef(graph, current_node).function_name \notin RegisteredFunctions
HandlerIsRaising ==
    /\ pc = "invoke"
    /\ CallHandler(NodeDef(graph, current_node).function_name, run.state).raised
LimitIsReached ==
    \/ pc = "loop" /\ iteration_count >= max_iterations
    \/ /\ pc = "invoke" /\ iteration_count >= max_iterations
       /\ ~CallHandler(NodeDef(graph, current_node).function_name, run.state).raised
       /\ StoppedByPolicy'

FatalCause ==
    CASE NodeIsMissing -> NodeNotFoundError(current_node)
      [] HandlerIsMissing -> NotRegisteredError(NodeDef(graph, current_node).function_name)
      [] HandlerIsRaising ->
            CallHandler(NodeDef(graph, current_node).function_name, run.state).result
      [] OTHER -> IterationLimitError

\* C9: a step that meets a fatal condition ends the run with status failed,
\* calls no handler, and leaves as last log entry the run-level ERROR entry
\* with status FAILED and the cause as message, the only run-level entry of
\* the log; and an ended run takes no further step (no retry).
C9_FatalConditionFailsRun ==
    [][/\ pc # "done"
       /\ (NodeIsMissing \/ HandlerIsMissing \/ HandlerIsRaising \/ LimitIsReached)
          => /\ pc' = "done"
             /\ run'.status = FAILED
             /\ invoked' = invoked
             /\ run'.logs[Len(run'.logs)] =
                   [node_name |-> "ERROR", status |-> FAILED,
                    message |-> <<"Workflow failed: ">> \o FatalCause,
                    state_snapshot |-> run'.state.data]
             /\ Cardinality({i \in 1..Len(run'.logs) : IsRunLevel(run'.logs[i])}) = 1]_vars

\* A run that failed because a handler raised: a node-level FAILED entry,
\* then the run-level entry.
C9_Witness ==
    /\ pc = "done"
    /\ run.status = FAILED
    /\ Len(run.logs) > 1
    /\ IsRunLevel(run.logs[Len(run.logs)])
    /\ run.logs[Len(run.logs) - 1].status = FAILED
    /\ NodeDef(graph, run.current_node).function_name = "fail"

----------------------------------------------------------------------------
(* C10 *)

\* The pieces of a message.
Pieces(message) == {message[k] : k \in 1..Len(message)}

\* C10: when the run has reached a node whose function_name is not
\* registered, the run has ended with status failed and the message of its
\* last log entry names that function.
C10_MissingHandlerNamed ==
    (/\ run.current_node # None
     /\ NodeDef(graph, run.current_node).function_name \notin RegisteredFunctions)
    => /\ pc = "done"
       /\ run.status = FAILED
       /\ NodeDef(graph, run.current_node).function_name
             \in Pieces(run.logs[Len(run.logs)].message)

\* A run that reached a node bound to the unregistered function.
C10_Witness ==
    /\ pc = "done"
    /\ run.current_node = "done"
    /\ NodeDef(graph, "done").function_name = UnregisteredFunction
    /\ run.status = FAILED
    /\ UnregisteredFunction \in Pieces(run.logs[Len(run.logs)].message)

----------------------------------------------------------------------------
(* Condition evaluation errors *)

\* The graph g without the conditional edges out of node whose condition
\* raises in the given state.
WithoutRaising(g, state, node) ==
    [g EXCEPT !.conditional_edges =
        [k \in DOMAIN g.conditional_edges |->
            IF k = node
            THEN SelectSeq(g.conditional_edges[k],
                           LAMBDA e : ~ConditionRaises(state, e.condition))
            ELSE g.conditional_edges[k]]]

\* The entries a step appends to the log.
Appended == SubSeq(run'.logs, Len(run.logs) + 1, Len(run'.logs))

\* C11: a conditional-edge predicate whose evaluation raises counts as
\* false in next-node resolution and in the loop-policy pass: after a
\* handler returned, the successor and the loop condition are those of the
\* graph without the raising predicates, and the only failure the step can
\* record is the iteration limit's, never the evaluation error.
C11_EvaluationErrorIsFalse ==
    [][(pc = "invoke"
          /\ ~CallHandler(NodeDef(graph, current_node).function_name, run.state).raised)
       => LET g2 == WithoutRaising(graph, run'.state, current_node)
          IN  /\ next_node' = GetNextNode(run'.state, g2, current_node)
              /\ next_node' \in visited_nodes =>
                    loop_condition' =
                        PyBool(CheckLoopCondition(run'.state, g2, current_node))
              /\ \A i \in 1..Len(Appended) :
                    Appended[i].status = FAILED =>
                       /\ IterationLimitReached(iteration_count)
                       /\ Appended[i].message =
                             <<"Workflow failed: ">> \o IterationLimitError
              /\ run'.status = FAILED => IterationLimitReached(iteration_count)]_vars

\* A run whose node calculate has only raising predicates and a simple edge
\* back to itself: resolution fell through to the simple edge, the loop
\* pass found no predicate true, and the run completed after two calls.
C11_Witness ==
    /\ graph \in EvalGraphs
    /\ pc = "done"
    /\ \A i \in 1..Len(graph.conditional_edges["calculate"]) :
          ConditionRaises(run.state, graph.conditional_edges["calculate"][i].condition)
    /\ Len(graph.conditional_edges["calculate"]) = 2
    /\ next_node = "calculate"
    /\ StoppedByPolicy
    /\ invoked = <<"calculate", "calculate">>
    /\ run.status = COMPLETED
    /\ \A i \in 1..Len(run.logs) : run.logs[i].status # FAILED

----------------------------------------------------------------------------
(* Log snapshots *)

\* What a mapping of state values shows to a reader: the value under
\* "items" is the list its address refers to.
Deref(d, h) == [k \in DOMAIN d |-> IF k = "items" THEN h[d[k]] ELSE d[k]]

\* C12: copy-on-log: the state_snapshot of an entry already in the log
\* reads the same after every step, whatever the step's handler did to
\* state.data (a new or replaced key, or a list mutated in place).
C12_SnapshotNeverChanges ==
    [][\A i \in 1..Len(run.logs) :
          Deref(run'.logs[i].state_snapshot, heap')
             = Deref(run.logs[i].state_snapshot, heap)]_vars

----------------------------------------------------------------------------
(* The run_workflow coroutine on the event loop. A frame holds what the    *)
(* coroutine owns: the run record, the locals of _execute_workflow and     *)
(* where it stands (loop: at the while test; invoke: in the await of a     *)
(* handler; done: returned). The heap is the one all coroutines share.     *)

\* The handlers that are coroutine functions and suspend when awaited; the
\* others are plain functions and return within the caller's step.
AsyncFunctions == {"increment", "append"}

\* The frame of run_workflow once the run record exists.
NewFrame(r, g, h) ==
    [run |-> r, heap |-> h, current_node |-> g.start_node, visited_nodes |-> {},
     iteration_count |-> 0, pc |-> "loop"]

\* A pass that does not wait for a suspendable handler: the handler is
\* scheduled and the loop goes on with the node's successor.
LoopHeadOverlapping(f, g) ==
    IF ~(f.current_node # None /\ f.iteration_count < max_iterations)
    THEN [f EXCEPT !.run = AfterLoop(f.run, f.iteration_count), !.pc = "done"]
    ELSE IF NodeDefs(g, f.current_node) = {}
    THEN [f EXCEPT !.iteration_count = @ + 1,
                   !.run = WorkflowFailed(@, NodeNotFoundError(f.current_node)),
                   !.pc = "done"]
    ELSE LET fn == NodeDef(g, f.current_node).function_name
             r1 == AddLog([f.run EXCEPT !.current_node = f.current_node],
                          f.current_node, RUNNING,
                          <<"Executing node ", f.current_node>>)
         IN  IF fn \notin RegisteredFunctions
             THEN [f EXCEPT !.iteration_count = @ + 1,
                            !.run = WorkflowFailed(
                                       AddLog(r1, f.current_node, FAILED,
                                              <<"Node ", f.current_node, " failed: ">>
                                                 \o NotRegisteredError(fn)),
                                       NotRegisteredError(fn)),
                            !.pc = "done"]
             ELSE IF fn \in AsyncFunctions
             THEN [f EXCEPT !.iteration_count = @ + 1, !.run = r1,
                            !.visited_nodes = @ \cup {f.current_node},
                            !.current_node = GetNextNode(r1.state, g, f.current_node),
                            !.pc = "loop"]
             ELSE [f EXCEPT !.iteration_count = @ + 1, !.run = r1, !.pc = "invoke"]

\* One pass from the while test to the call of the handler, or to the end
\* of the run (loop left, node not found, function not registered).
LoopHead(f, g) ==
    IF ~(f.current_node # None /\ f.iteration_count < max_iterations)
    THEN [f EXCEPT !.run = AfterLoop(f.run, f.iteration_count), !.pc = "done"]
    ELSE IF NodeDefs(g, f.current_node) = {}
    THEN [f EXCEPT !.iteration_count = @ + 1,
                   !.run = WorkflowFailed(@, NodeNotFoundError(f.current_node)),
                   !.pc = "done"]
    ELSE LET fn == NodeDef(g, f.current_node).function_name
             r1 == AddLog([f.run EXCEPT !.current_node = f.current_node],
                          f.current_node, RUNNING,
                          <<"Executing node ", f.current_node>>)
         IN  IF fn \notin RegisteredFunctions
             THEN [f EXCEPT !.iteration_count = @ + 1,
                            !.run = WorkflowFailed(
                                       AddLog(r1, f.current_node, FAILED,
                                              <<"Node ", f.current_node, " failed: ">>
                                                 \o NotRegisteredError(fn)),
                                       NotRegisteredError(fn)),
                            !.pc = "done"]
             ELSE [f EXCEPT !.iteration_count = @ + 1, !.run = r1, !.pc = "invoke"]

\* The handler's call ends: it raised, or it returned and the rest of the
\* iteration runs (merge, log, successor, loop/terminate policy).
HandlerStep(f, g) ==
    LET fn == NodeDef(g, f.current_node).function_name
        out == CallHandler(fn, f.run.state)
        h2 == HandlerHeap(fn, f.run.state, f.heap)
        annotated == [f.run EXCEPT !.state.metadata = HandlerMetadata(fn, f.run.state)]
        merged == Merged(annotated, fn, out.result)
        r1 == AddLog(merged, f.current_node, COMPLETED,
                     <<"Node ", f.current_node, " completed">>)
        nxt == GetNextNode(r1.state, g, f.current_node)
    IN  IF out.raised
        THEN [f EXCEPT !.run = WorkflowFailed(
                                  AddLog(f.run, f.current_node, FAILED,
                                         <<"Node ", f.current_node, " failed: ">>
                                            \o out.result),
                                  out.result),
                       !.heap = h2, !.pc = "done"]
        ELSE IF nxt \in f.visited_nodes
                /\ ~CheckLoopCondition(r1.state, g, f.current_node)
        THEN [f EXCEPT !.run = AfterLoop(r1, f.iteration_count),
                       !.heap = h2, !.pc = "done"]
        ELSE [f EXCEPT !.run = r1, !.heap = h2,
                       !.visited_nodes = @ \cup {f.current_node},
                       !.current_node = nxt, !.pc = "loop"]

\* The coroutine runs until it suspends in an awaited handler or returns.
RECURSIVE Advance(_, _)
Advance(f, g) ==
    IF f.pc = "done" THEN f
    ELSE IF f.pc = "loop" THEN Advance(LoopHead(f, g), g)
    ELSE IF NodeDef(g, f.current_node).function_name \in AsyncFunctions THEN f
    ELSE Advance(HandlerStep(f, g), g)

\* The coroutine, suspended in a handler, is resumed by the handler's end.
Resume(f, g) == Advance(HandlerStep(f, g), g)

\* The run taken alone, from the frame to its end.
RECURSIVE RunAlone(_, _)
RunAlone(f, g) == IF f.pc = "done" THEN f ELSE RunAlone(Resume(f, g), g)

----------------------------------------------------------------------------
(* The engine object: its stores and the calls made on it *)

\* How many graphs are created, runs started and failed calls made.
MaxGraphs == 2
MaxRuns == 2
MaxErrors == 1

\* create_graph's id for the next graph, and the ids of the runs (uuid4 in
\* the code: never one that is in use). GraphIdOfName is an id that does
\* not count the stored graphs.
GraphIdOfName(n) == "graph_1"
GraphId(n) == "graph_" \o ToString(n)
RunId(n) == "run_" \o ToString(n)

\* The definitions given to create_graph: three that are well formed (the
\* second one's last handler raises, the third one's first handler is a
\* blocking one), one whose start_node names no node, one with two nodes
\* of the same name.
WellFormedDefs ==
    {[nodes |-> <<[name |-> "collect", function_name |-> "append"],
                  [name |-> "report", function_name |-> f2]>>,
      edges |-> [k \in {"collect"} |-> "report"],
      conditional_edges |-> EmptyDict,
      start_node |-> "collect"] : f2 \in {"append", "fail"}}
    \cup {[nodes |-> <<[name |-> "collect", function_name |-> "noop"],
                       [name |-> "report", function_name |-> "append"]>>,
           edges |-> [k \in {"collect"} |-> "report"],
           conditional_edges |-> EmptyDict,
           start_node |-> "collect"]}
BadStartDef ==
    [nodes |-> <<[name |-> "collect", function_name |-> "append"]>>,
     edges |-> EmptyDict, conditional_edges |-> EmptyDict,
     start_node |-> "absent"]
DuplicateNameDef ==
    [nodes |-> <<[name |-> "collect", function_name |-> "append"],
                 [name |-> "collect", function_name |-> "fail"]>>,
     edges |-> EmptyDict, conditional_edges |-> EmptyDict,
     start_node |-> "collect"]
GraphDefs == WellFormedDefs \cup {BadStartDef, DuplicateNameDef}

\* A caller that hands every run the same list object.
SharedAddress(h) == 1

\* The address of the list a new request's initial_state holds: each
\* request body is parsed into objects of its own.
NewAddress(h) == Len(h) + 1

\* WorkflowRun.create: the record of a new run.
NewRun(run_id, graph_id, data) ==
    [run_id |-> run_id, graph_id |-> graph_id, status |-> PENDING,
     current_node |-> None,
     state |-> [data |-> data, metadata |-> EmptyDict], logs |-> <<>>,
     completed_at |-> None]

\* A ValueError message that does not say which graph.
GraphNotFoundErrorUnnamed(graph_id) == <<"Graph not found">>

\* run_workflow's ValueError for a graph_id that is not stored.
GraphNotFoundError(graph_id) == <<"Graph ", graph_id, " not found">>

\* get_run: the stored record, if any.
GetRun(rs, run_id) == IF run_id \in DOMAIN rs THEN <<rs[run_id]>> ELSE <<>>

\* The task _add_log creates for the k-th entry of a run's log.
NewBroadcast(run_id, k) ==
    [run_id |-> run_id, entry |-> k, pc |-> "new", connections |-> <<>>,
     idx |-> 0, outcome |-> "none"]

\* The frame of the coroutine of run_id, from the stores.
FrameOf(run_id) ==
    [run |-> runs[run_id], heap |-> heap,
     current_node |-> tasks[run_id].current_node,
     visited_nodes |-> tasks[run_id].visited_nodes,
     iteration_count |-> tasks[run_id].iteration_count,
     pc |-> tasks[run_id].pc]

\* The stores after the coroutine of run_id ran up to frame f: the record,
\* the heap, the locals, a broadcast task per new log entry, and the
\* returned record once the coroutine is done.
Commit(run_id, f, turns) ==
    LET old == IF run_id \in DOMAIN runs THEN Len(runs[run_id].logs) ELSE 0
    IN  /\ runs' = (run_id :> f.run) @@ runs
        /\ heap' = f.heap
        /\ tasks' = (run_id :> [current_node |-> f.current_node,
                                visited_nodes |-> f.visited_nodes,
                                iteration_count |-> f.iteration_count,
                                pc |-> f.pc, turns |-> turns]) @@ tasks
        /\ btasks' = btasks \o [k \in 1..(Len(f.run.logs) - old) |->
                                   NewBroadcast(run_id, old + k)]
        /\ returned' = IF f.pc = "done" THEN (run_id :> f.run) @@ returned
                       ELSE returned

\* create_graph: the definition is stored under the next id.
CreateGraph(graph_def) ==
    /\ Cardinality(DOMAIN graphs) < MaxGraphs
    /\ graphs' = (GraphId(Cardinality(DOMAIN graphs) + 1) :> graph_def) @@ graphs
    /\ UNCHANGED <<svars, heap, runs, tasks, returned, errors,
                   websocket_connections, btasks, sockets>>

\* run_workflow with a graph_id that is not stored: the ValueError.
RunGraphNotFound(graph_id) ==
    /\ graph_id \notin DOMAIN graphs
    /\ Len(errors) < MaxErrors
    /\ errors' = Append(errors, [graph_id |-> graph_id,
                                 error |-> GraphNotFoundError(graph_id)])
    /\ UNCHANGED <<svars, heap, graphs, runs, tasks, returned,
                   websocket_connections, btasks, sockets>>

\* run_workflow with a stored graph_id, up to its first suspension: the run
\* is created over an initial_state of its own, stored, and executed.
RunWorkflowCall(graph_id, limit) ==
    /\ graph_id \in DOMAIN graphs
    /\ Cardinality(DOMAIN runs) < limit
    /\ LET run_id == RunId(Cardinality(DOMAIN runs) + 1)
           items == NewAddress(heap)
           data == [k \in {"score", "items"} |-> IF k = "score" THEN 5 ELSE items]
           h == Append(heap, <<"a">>)
       IN  Commit(run_id,
                  Advance(NewFrame(NewRun(run_id, graph_id, data),
                                   graphs[graph_id], h),
                          graphs[graph_id]),
                  0)
    /\ UNCHANGED <<svars, graphs, errors, websocket_connections, sockets>>

\* A run whose coroutine awaits the broadcast of each entry it logs.
WaitsForBroadcastAwaited(bt, run_id) ==
    \E i \in 1..Len(bt) : bt[i].run_id = run_id

\* Whether the coroutine of the run has to wait for its broadcast tasks:
\* _add_log creates them with create_task and awaits none.
WaitsForBroadcast(bt, run_id) == FALSE

\* The handler a run is suspended in ends, and the coroutine goes on to
\* its next suspension or to its end.
ResumeRun(run_id) ==
    /\ run_id \in DOMAIN tasks
    /\ tasks[run_id].pc = "invoke"
    /\ ~WaitsForBroadcast(btasks, run_id)
    /\ Commit(run_id, Resume(FrameOf(run_id), graphs[runs[run_id].graph_id]),
              tasks[run_id].turns + 1)
    /\ UNCHANGED <<svars, graphs, errors, websocket_connections, sockets>>

----------------------------------------------------------------------------
(* Observers: the websockets of /ws/workflow/{run_id} and the broadcast    *)
(* tasks. A send_text call hands its message to the socket, or finds the   *)
(* socket closed; the caller is suspended until the call returns or raises.*)

\* The websockets that may connect, all for the first run, and the one
\* whose client may close it.
Sockets == {"ws1", "ws2"}
ClosingSockets == {"ws1"}
ObservedRun == RunId(1)

\* The run_id in the path of the websocket's request: the first run, but
\* for the websocket that observes the second run.
RunOf(w) == IF w = "ws3" THEN RunId(2) ELSE ObservedRun

\* The messages a socket receives: of the endpoint itself (connected,
\* status, waiting), a log entry replayed by the endpoint, a log entry
\* broadcast by its task.
Message(type, k, origin) == [type |-> type, entry |-> k, origin |-> origin]

\* A registry that keeps one list for all runs, under the first run's id.
AddConnectionOneList(wc, run_id, w) ==
    IF RunId(1) \in DOMAIN wc
    THEN [wc EXCEPT ![RunId(1)] = Append(@, w)]
    ELSE (RunId(1) :> <<w>>) @@ wc

\* add_websocket_connection
AddConnection(wc, run_id, w) ==
    IF run_id \in DOMAIN wc
    THEN [wc EXCEPT ![run_id] = Append(@, w)]
    ELSE (run_id :> <<w>>) @@ wc

\* list.remove(w) for a list holding w at most once.
Without(list, w) == SelectSeq(list, LAMBDA x : x # w)
Holds(list, w) == \E i \in 1..Len(list) : list[i] = w

\* remove_websocket_connection: the socket leaves the list, and an empty
\* list leaves the dict.
RemoveConnection(wc, run_id, w) ==
    IF run_id \in DOMAIN wc /\ Holds(wc[run_id], w)
    THEN IF Without(wc[run_id], w) = <<>>
         THEN [k \in DOMAIN wc \ {run_id} |-> wc[k]]
         ELSE [wc EXCEPT ![run_id] = Without(@, w)]
    ELSE wc

\* An except branch of _broadcast_log that leaves the socket in the list.
PruneConnectionKept(wc, run_id, w) == wc

\* The except branch of _broadcast_log: the socket leaves the list (the
\* list stays in the dict). The caller has checked that run_id is a key.
PruneConnection(wc, run_id, w) ==
    IF Holds(wc[run_id], w) THEN [wc EXCEPT ![run_id] = Without(@, w)] ELSE wc

\* A send_text call on socket w: the sockets after it, and how the call
\* will end for its caller.
SendOutcome(w) == IF sockets[w].open THEN "ok" ELSE "err"
SendTo(ss, w, msg) ==
    IF ss[w].open THEN [ss EXCEPT ![w].received = Append(@, msg)] ELSE ss

\* The broadcast tasks without the i-th, which has ended.
Ended(i) == SubSeq(btasks, 1, i - 1) \o SubSeq(btasks, i + 1, Len(btasks))

\* The task that the event loop starts next: the oldest one not started.
IsNextToStart(i) ==
    /\ i \in 1..Len(btasks)
    /\ btasks[i].pc = "new"
    /\ \A j \in 1..(i - 1) : btasks[j].pc # "new"

\* _broadcast_log up to its first send: it returns at once when the run has
\* no list of connections (or an empty one), else copies the list and
\* sends to the first socket.
BroadcastStart ==
    \E i \in 1..Len(btasks) :
       /\ IsNextToStart(i)
       /\ LET t == btasks[i]
              conns == IF t.run_id \in DOMAIN websocket_connections
                       THEN websocket_connections[t.run_id] ELSE <<>>
          IN  IF conns = <<>>
              THEN /\ btasks' = Ended(i)
                   /\ UNCHANGED sockets
              ELSE /\ btasks' = [btasks EXCEPT ![i] =
                                    [t EXCEPT !.pc = "sending", !.connections = conns,
                                              !.idx = 1,
                                              !.outcome = SendOutcome(conns[1])]]
                   /\ sockets' = SendTo(sockets, conns[1],
                                        Message("log", t.entry, "live"))
       /\ UNCHANGED <<svars, heap, graphs, runs, tasks, returned, errors,
                      websocket_connections>>

\* A send of _broadcast_log ends. If it raised, the socket is pruned (a
\* KeyError ends the task when the run's list has left the dict). Then the
\* next socket of the copy is sent to, or the task ends.
BroadcastSendDone(i) ==
    /\ i \in 1..Len(btasks)
    /\ btasks[i].pc = "sending"
    /\ LET t == btasks[i]
           w == t.connections[t.idx]
           key_error == t.outcome = "err"
                        /\ t.run_id \notin DOMAIN websocket_connections
       IN  /\ websocket_connections' =
                 IF t.outcome = "err" /\ ~key_error
                 THEN PruneConnection(websocket_connections, t.run_id, w)
                 ELSE websocket_connections
           /\ IF key_error \/ t.idx = Len(t.connections)
              THEN /\ btasks' = Ended(i)
                   /\ UNCHANGED sockets
              ELSE /\ btasks' = [btasks EXCEPT ![i] =
                                   [t EXCEPT !.idx = @ + 1,
                                             !.outcome =
                                                SendOutcome(t.connections[t.idx + 1])]]
                   /\ sockets' = SendTo(sockets, t.connections[t.idx + 1],
                                        Message("log", t.entry, "live"))
    /\ UNCHANGED <<svars, heap, graphs, runs, tasks, returned, errors>>

\* The endpoint of socket w sends msg and is suspended in the send, at pc.
EndpointSends(ss, w, msg, at, k) ==
    [SendTo(ss, w, msg) EXCEPT ![w].pc = at, ![w].i = k,
                               ![w].outcome = IF ss[w].open THEN "ok" ELSE "err"]

\* websocket_workflow_logs up to its first send: the socket is accepted and
\* registered, and the connected message is sent.
WsOpen(w) ==
    /\ w \in DOMAIN sockets
    /\ sockets[w].pc = "idle"
    /\ websocket_connections' = AddConnection(websocket_connections, RunOf(w), w)
    /\ sockets' = EndpointSends(sockets, w, Message("connected", 0, "endpoint"),
                                "connected", 0)
    /\ UNCHANGED <<svars, heap, graphs, runs, tasks, returned, errors, btasks>>

\* The endpoint's replay from the k-th entry of the run's log as the list
\* is now: that entry is sent, or past the end the status message.
Replay(ss, w, k) ==
    IF k <= Len(runs[RunOf(w)].logs)
    THEN EndpointSends(ss, w, Message("log", k, "replay"), "replaying", k)
    ELSE EndpointSends(ss, w, Message("status", 0, "endpoint"), "status", k)

\* A send of the endpoint ends. If it raised, the finally clause removes
\* the connection. Else the endpoint goes on: after connected, to the
\* replay of the run's log (or the waiting message when there is no such
\* run); in the replay, to the next entry; after status or waiting, to the
\* receive loop.
WsStep(w) ==
    /\ w \in DOMAIN sockets
    /\ sockets[w].pc \in {"connected", "replaying", "status", "waiting"}
    /\ IF sockets[w].outcome = "err"
       THEN /\ websocket_connections' =
                  RemoveConnection(websocket_connections, RunOf(w), w)
            /\ sockets' = [sockets EXCEPT ![w].pc = "closed"]
       ELSE /\ UNCHANGED websocket_connections
            /\ sockets' =
                 CASE sockets[w].pc = "connected" ->
                        IF RunOf(w) \in DOMAIN runs
                        THEN Replay(sockets, w, 1)
                        ELSE EndpointSends(sockets, w,
                                           Message("waiting", 0, "endpoint"),
                                           "waiting", 0)
                   [] sockets[w].pc = "replaying" ->
                        Replay(sockets, w, sockets[w].i + 1)
                   [] OTHER -> [sockets EXCEPT ![w].pc = "receiving"]
    /\ UNCHANGED <<svars, heap, graphs, runs, tasks, returned, errors, btasks>>

\* The client closes its side of the socket.
ClientClose(w) ==
    /\ w \in DOMAIN sockets
    /\ sockets[w].pc \notin {"idle", "closed"}
    /\ sockets[w].open
    /\ sockets' = [sockets EXCEPT ![w].open = FALSE]
    /\ UNCHANGED <<svars, heap, graphs, runs, tasks, returned, errors,
                   websocket_connections, btasks>>

\* receive_text raises WebSocketDisconnect: the loop is left and the
\* finally clause removes the connection.
WsDisconnected(w) ==
    /\ w \in DOMAIN sockets
    /\ sockets[w].pc = "receiving"
    /\ ~sockets[w].open
    /\ websocket_connections' =
          RemoveConnection(websocket_connections, RunOf(w), w)
    /\ sockets' = [sockets EXCEPT ![w].pc = "closed"]
    /\ UNCHANGED <<svars, heap, graphs, runs, tasks, returned, errors, btasks>>

----------------------------------------------------------------------------
(* The engine with concurrent runs and no observer *)

\* The single run's variables, unused while the engine's calls are followed.
SingleRunUnused ==
    /\ graph = BadStartDef
    /\ initial_state = EmptyDict
    /\ run = NewRun(None, None, EmptyDict)
    /\ current_node = None
    /\ visited_nodes = {}
    /\ iteration_count = 0
    /\ next_node = None
    /\ loop_condition = None
    /\ invoked = <<>>
    /\ pc = "unused"

EngineInit ==
    /\ SingleRunUnused
    /\ heap = <<>>
    /\ EngineIdle

EngineNext ==
    \/ \E graph_def \in GraphDefs : CreateGraph(graph_def)
    \/ \E n \in 0..MaxGraphs : RunGraphNotFound(GraphId(n))
    \/ \E n \in 1..MaxGraphs : RunWorkflowCall(GraphId(n), MaxRuns)
    \/ \E n \in 1..MaxRuns : ResumeRun(RunId(n))
    \/ BroadcastStart

EngineSpec == EngineInit /\ [][EngineNext]_vars

----------------------------------------------------------------------------
(* The engine with one run and its observers *)

\* The graph of the observed run: one node, whose handler is a coroutine
\* function (append) or a plain function (noop).
ObservedGraphs ==
    {[nodes |-> <<[name |-> "collect", function_name |-> f1]>>,
      edges |-> EmptyDict, conditional_edges |-> EmptyDict,
      start_node |-> "collect"] : f1 \in {"append", "noop"}}

\* One graph is stored, no run has started, and the websockets of S have
\* not connected yet.
ObserversIdle(S) ==
    /\ SingleRunUnused
    /\ heap = <<>>
    /\ \E g \in ObservedGraphs : graphs = (GraphId(1) :> g)
    /\ runs = EmptyDict
    /\ tasks = EmptyDict
    /\ returned = EmptyDict
    /\ errors = <<>>
    /\ websocket_connections = EmptyDict
    /\ btasks = <<>>
    /\ sockets = [w \in S |->
                     [pc |-> "idle", open |-> TRUE, received |-> <<>>, i |-> 0,
                      outcome |-> "none"]]

ObserverInit == ObserversIdle(Sockets)

ObserverNext ==
    \/ RunWorkflowCall(GraphId(1), 1)
    \/ RunGraphNotFound(GraphId(0))
    \/ ResumeRun(ObservedRun)
    \/ BroadcastStart
    \/ \E i \in 1..Len(btasks) : BroadcastSendDone(i)
    \/ \E w \in Sockets : WsOpen(w)
    \/ \E w \in Sockets : WsStep(w)
    \/ \E w \in ClosingSockets : ClientClose(w)
    \/ \E w \in Sockets : WsDisconnected(w)

ObserverSpec == ObserverInit /\ [][ObserverNext]_vars

----------------------------------------------------------------------------
(* Concurrent runs *)

\* What a run record shows to a reader: its status, node, state and log,
\* the lists read through their addresses.
View(r, h) ==
    [status |-> r.status, current_node |-> r.current_node,
     data |-> Deref(r.state.data, h),
     logs |-> [i \in 1..Len(r.logs) |->
                  [r.logs[i] EXCEPT !.state_snapshot = Deref(@, h)]]]

\* The same run taken alone on an engine of its own, after n resumptions.
RECURSIVE SoloAfter(_, _, _)
SoloAfter(f, g, n) ==
    IF n = 0 \/ f.pc = "done" THEN f ELSE SoloAfter(Resume(f, g), g, n - 1)
Solo(g, n) ==
    SoloAfter(Advance(NewFrame(NewRun("solo", "solo",
                                      [k \in {"score", "items"} |->
                                          IF k = "score" THEN 5 ELSE 1]),
                               g, <<(<<"a">>)>>), g),
              g, n)

C14_ReturnedRunIsTerminalAndStored ==
    \A run_id \in DOMAIN returned :
       /\ returned[run_id].status \in {COMPLETED, FAILED}
       /\ GetRun(runs, returned[run_id].run_id) = <<returned[run_id]>>

\* Both kinds of return have happened: a completed run and a failed one.
C14_Witness ==
    /\ DOMAIN returned = {RunId(1), RunId(2)}
    /\ returned[RunId(1)].status = COMPLETED
    /\ returned[RunId(2)].status = FAILED

\* C15: run_workflow with a graph_id that is not stored raises the
\* graph-not-found error naming it and changes nothing else: the runs and
\* their logs, the stored graphs, the observers and the tasks stay as they
\* were; and no run is ever created for a graph that is not stored.
C15_UnknownGraphRaises ==
    [][/\ Len(errors') > Len(errors) =>
             /\ errors' = Append(errors, errors'[Len(errors')])
             /\ errors'[Len(errors')].graph_id \notin DOMAIN graphs
             /\ errors'[Len(errors')].error =
                   <<"Graph ", errors'[Len(errors')].graph_id, " not found">>
             /\ UNCHANGED <<graphs, runs, tasks, returned, heap,
                            websocket_connections, btasks, sockets>>
       /\ \A run_id \in DOMAIN runs' :
             runs'[run_id].graph_id \in DOMAIN graphs']_vars

\* The call failed while a run was in flight and an observer registered.
C15_Witness ==
    /\ Len(errors) = 1
    /\ errors[1].graph_id \notin DOMAIN graphs
    /\ ObservedRun \in DOMAIN runs
    /\ runs[ObservedRun].status = PENDING
    /\ Len(runs[ObservedRun].logs) = 1
    /\ ObservedRun \in DOMAIN websocket_connections

\* A definition create_graph is to reject: its start_node names none of
\* its nodes, or two of its nodes have the same name.
IllFormed(g) ==
    \/ NodeDefs(g, g.start_node) = {}
    \/ \E i, j \in 1..Len(g.nodes) : i # j /\ g.nodes[i].name = g.nodes[j].name

\* C16: no stored graph has a start_node outside its nodes or two nodes
\* of one name, and no run is of such a graph.
C16_IllFormedGraphRejected ==
    /\ \A graph_id \in DOMAIN graphs : ~IllFormed(graphs[graph_id])
    /\ \A run_id \in DOMAIN runs : ~IllFormed(graphs[runs[run_id].graph_id])

----------------------------------------------------------------------------
(* What observers receive *)

\* The positions in what socket w received of the log entries that a
\* broadcast task sent, and of those the endpoint replayed.
Live(w) ==
    {i \in 1..Len(sockets[w].received) : sockets[w].received[i].origin = "live"}
Replayed(w) ==
    {i \in 1..Len(sockets[w].received) : sockets[w].received[i].origin = "replay"}

\* C17: every observer receives the broadcast entries of the run in the
\* order in which they were appended to the run's log.
C17_BroadcastInAppendOrder ==
    \A w \in DOMAIN sockets :
       \A i, j \in Live(w) :
          i < j => sockets[w].received[i].entry < sockets[w].received[j].entry

\* C18: an observer receives the entries the run holds when it subscribes
\* by the replay, in append order, and no broadcast entry before the
\* replay has finished.
C18_BacklogBeforeLive ==
    \A w \in DOMAIN sockets :
       /\ sockets[w].pc \in {"connected", "replaying"} => Live(w) = {}
       /\ \A i \in Live(w), j \in Replayed(w) : j < i
       /\ \A i, j \in Replayed(w) :
             i < j => sockets[w].received[i].entry < sockets[w].received[j].entry

----------------------------------------------------------------------------
(* Failing and stalled sends *)

\* The step ends a send of the i-th broadcast task that raised.
SendFailed(i) ==
    /\ i \in 1..Len(btasks)
    /\ btasks[i].pc = "sending"
    /\ btasks[i].outcome = "err"
    /\ \/ btasks' = Ended(i)
       \/ Len(btasks') = Len(btasks) /\ btasks'[i].idx = btasks[i].idx + 1

\* The sockets of the task's copy after the one it stands at that are
\* still registered for the run.
Remaining(t, wc) ==
    {k \in (t.idx + 1)..Len(t.connections) :
        t.run_id \in DOMAIN wc /\ Holds(wc[t.run_id], t.connections[k])}

\* The observed run is what the same run is on an engine without observers.
AsWithoutObservers ==
    \A run_id \in DOMAIN runs :
       LET s == Solo(graphs[runs[run_id].graph_id], tasks[run_id].turns)
       IN  /\ View(runs[run_id], heap) = View(s.run, s.heap)
           /\ tasks[run_id].pc = s.pc
           /\ run_id \in DOMAIN returned <=> s.pc = "done"

\* C19: when a send of a broadcast fails, the socket is no longer in the
\* run's list, the task goes on to the next socket of its copy as long as
\* one of them is still registered (an open one receives the entry), and
\* the run is untouched by the step; at all times the run's status, log
\* and state are those of the run without observers.
C19_FailedSendPrunesObserver ==
    /\ []AsWithoutObservers
    /\ [][\A i \in 1..Len(btasks) :
            SendFailed(i) =>
               LET t == btasks[i]
                   w == t.connections[t.idx]
               IN  /\ t.run_id \in DOMAIN websocket_connections' =>
                         ~Holds(websocket_connections'[t.run_id], w)
                   /\ Remaining(t, websocket_connections) # {} =>
                         /\ btasks' # Ended(i)
                         /\ LET n == t.connections[t.idx + 1]
                            IN  sockets[n].open =>
                                  sockets'[n].received =
                                     Append(sockets[n].received,
                                            Message("log", t.entry, "live"))
                   /\ UNCHANGED <<runs, tasks, returned, heap, errors>>]_vars

\* A broadcast found ws1 closed and pruned it (its endpoint has not yet
\* removed it), and went on to send the entry to ws2.
C19_Witness ==
    /\ ObservedRun \in DOMAIN websocket_connections
    /\ websocket_connections[ObservedRun] = <<"ws2">>
    /\ ~sockets["ws1"].open
    /\ sockets["ws1"].pc \notin {"idle", "closed"}
    /\ \E i \in 1..Len(btasks) :
          /\ btasks[i].pc = "sending"
          /\ btasks[i].connections = <<"ws1", "ws2">>
          /\ btasks[i].idx = 2
          /\ sockets["ws2"].received[Len(sockets["ws2"].received)]
                = Message("log", btasks[i].entry, "live")

\* One run and one observer, whose client may close its socket. The run's
\* coroutine is resumed whenever its handler has ended; nothing is assumed
\* of the sends, the broadcast tasks or the client, so that a send may
\* never end.
StalledInit == ObserversIdle(ClosingSockets)

StalledNext ==
    \/ RunWorkflowCall(GraphId(1), 1)
    \/ ResumeRun(ObservedRun)
    \/ BroadcastStart
    \/ \E i \in 1..Len(btasks) : BroadcastSendDone(i)
    \/ \E w \in ClosingSockets : WsOpen(w)
    \/ \E w \in ClosingSockets : WsStep(w)
    \/ \E w \in ClosingSockets : ClientClose(w)
    \/ \E w \in ClosingSockets : WsDisconnected(w)

StalledSpec ==
    /\ StalledInit
    /\ [][StalledNext]_vars
    /\ WF_vars(RunWorkflowCall(GraphId(1), 1))
    /\ WF_vars(ResumeRun(ObservedRun))

\* C20: the run reaches its terminal status whatever becomes of the sends
\* to its observers, and then holds every log entry of the run without
\* observers, delivered or not.
C20_RunEndsWhateverObserversDo ==
    <>(/\ ObservedRun \in DOMAIN returned
       /\ returned[ObservedRun].status \in {COMPLETED, FAILED}
       /\ LET s == RunAlone(Solo(graphs[GraphId(1)], 0), graphs[GraphId(1)])
          IN  View(runs[ObservedRun], heap) = View(s.run, s.heap))

\* The run has returned while the send of its first entry to a closed
\* socket has not ended.
C20_Witness ==
    /\ ObservedRun \in DOMAIN returned
    /\ returned[ObservedRun].status = COMPLETED
    /\ Len(runs[ObservedRun].logs) = 2
    /\ \E i \in 1..Len(btasks) :
          /\ btasks[i].pc = "sending"
          /\ btasks[i].entry = 1
          /\ btasks[i].outcome = "err"

----------------------------------------------------------------------------
(* The log and the state over the life of a run *)

\* C21: the log only grows and no entry of it changes: at every step the
\* log before is a prefix of the log after, entry by entry as a reader
\* sees them; and once run_workflow has returned, the run's status, log
\* and state stay as they are.
C21_LogAppendOnly ==
    [][/\ Len(run.logs) <= Len(run'.logs)
       /\ \A i \in 1..Len(run.logs) :
             [run'.logs[i] EXCEPT !.state_snapshot = Deref(@, heap')]
                = [run.logs[i] EXCEPT !.state_snapshot = Deref(@, heap)]
       /\ pc = "done" => View(run', heap') = View(run, heap)]_vars

\* The state and the heap after the handlers of the given nodes were
\* called in turn from state st and heap h: every call leaves its in-place
\* changes, and a call that returns has its result merged.
RECURSIVE StateAfter(_, _, _, _, _)
StateAfter(st, h, g, nodes, i) ==
    IF i > Len(nodes) THEN [state |-> st, heap |-> h]
    ELSE LET fn == NodeDef(g, nodes[i]).function_name
             out == CallHandler(fn, st)
         IN  StateAfter(IF out.raised THEN st
                        ELSE Merged([state |-> st], fn, out.result).state,
                        HandlerHeap(fn, st, h), g, nodes, i + 1)

\* The heap the run started with.
StartHeap == IF graph \in HeapGraphs THEN InitialHeap ELSE <<>>

\* C22: a failed run's state.data is the state at the moment of failure:
\* the initial state with the results of every node that completed merged
\* in, and with what the handlers (the failing one too) changed in place.
C22_FailedRunKeepsState ==
    (pc = "done" /\ run.status = FAILED)
    => LET e == StateAfter([data |-> initial_state, metadata |-> EmptyDict],
                           StartHeap, graph, invoked, 1)
       IN  Deref(run.state.data, heap) = Deref(e.state.data, e.heap)

\* A run failed at its second node, whose handler appended to the list
\* before it raised, after the first node had appended to it.
C22_Witness ==
    /\ pc = "done"
    /\ run.status = FAILED
    /\ graph \in HeapGraphs
    /\ invoked = <<"collect", "report">>
    /\ NodeDef(graph, "report").function_name = "append_fail"
    /\ Deref(run.state.data, heap)["items"] = <<"a", "x", "x">>
    /\ Deref(initial_state, StartHeap)["items"] = <<"a">>

----------------------------------------------------------------------------
(* Graph ids *)

\* The n of an id graph_<n> among the first ids.
IdNumber(graph_id) ==
    CHOOSE n \in 1..(MaxGraphs + 1) : GraphId(n) = graph_id

\* C23: every create_graph call stores its definition under an id
\* graph_<n> that no earlier call returned, with n above the n of every
\* earlier id, and leaves the graphs stored earlier as they were.
C23_GraphIdsFreshAndIncreasing ==
    [][graphs' # graphs =>
         \E graph_id \in DOMAIN graphs' \ DOMAIN graphs :
            /\ DOMAIN graphs' = DOMAIN graphs \cup {graph_id}
            /\ \E n \in 1..(MaxGraphs + 1) : graph_id = GraphId(n)
            /\ \A earlier \in DOMAIN graphs :
                  /\ IdNumber(earlier) < IdNumber(graph_id)
                  /\ graphs'[earlier] = graphs[earlier]]_vars

\* Two definitions are stored, the second one different from the first.
C23_Witness ==
    /\ DOMAIN graphs = {GraphId(1), GraphId(2)}
    /\ graphs[GraphId(1)] # graphs[GraphId(2)]

----------------------------------------------------------------------------
(* The shape of the log *)

\* The node-level RUNNING entries of the log, in order.
RunningEntries == SelectSeq(run.logs, LAMBDA e : e.status = RUNNING)

\* A run-level entry for a node that was not found, or for the iteration
\* limit.
IsNotFoundOrLimit(entry) ==
    \/ entry.message = <<"Workflow failed: ">> \o IterationLimitError
    \/ /\ Len(entry.message) = 4
       /\ entry.message[4] = " not found in graph"

\* C24: the log is a sequence of pairs, a RUNNING entry of a node and then
\* a COMPLETED or FAILED entry of the same node, one pair per invocation
\* (the last pair is open while the handler runs); a node-level FAILED
\* entry is followed at once by the run-level ERROR entry, which ends the
\* log; and the ERROR entry of a node not found or of the iteration limit
\* follows no node-level FAILED entry.
C24_LogShape ==
    /\ \A i \in 1..Len(run.logs) :
          LET e == run.logs[i]
          IN  CASE IsRunLevel(e) ->
                     /\ i = Len(run.logs)
                     /\ e.status = FAILED
                     /\ i > 1 => /\ ~IsRunLevel(run.logs[i - 1])
                                 /\ run.logs[i - 1].status \in {COMPLETED, FAILED}
                     /\ (IsNotFoundOrLimit(e) /\ i > 1) =>
                           run.logs[i - 1].status = COMPLETED
                [] ~IsRunLevel(e) /\ e.status = RUNNING ->
                     /\ i > 1 => run.logs[i - 1].status = COMPLETED
                     /\ i = Len(run.logs) => pc = "invoke"
                     /\ i < Len(run.logs) =>
                           /\ run.logs[i + 1].node_name = e.node_name
                           /\ run.logs[i + 1].status \in {COMPLETED, FAILED}
                [] ~IsRunLevel(e) /\ e.status = COMPLETED ->
                     /\ i > 1
                     /\ run.logs[i - 1].status = RUNNING
                     /\ run.logs[i - 1].node_name = e.node_name
                [] ~IsRunLevel(e) /\ e.status = FAILED ->
                     /\ i > 1
                     /\ run.logs[i - 1].status = RUNNING
                     /\ run.logs[i - 1].node_name = e.node_name
                     /\ i + 1 = Len(run.logs)
                     /\ IsRunLevel(run.logs[i + 1])
    /\ Len(invoked) <= Len(RunningEntries)
    /\ Len(RunningEntries) <= Len(invoked) + 1
    /\ \A k \in 1..Len(invoked) : RunningEntries[k].node_name = invoked[k]
    /\ Len(RunningEntries) = Len(invoked) + 1 =>
          NodeDef(graph, RunningEntries[Len(RunningEntries)].node_name).function_name
             \notin RegisteredFunctions

\* A run of two invocations whose second handler raised: RUNNING,
\* COMPLETED, RUNNING, FAILED, ERROR.
C24_Witness ==
    /\ pc = "done"
    /\ Len(run.logs) = 5
    /\ Len(invoked) = 2
    /\ run.logs[4].status = FAILED /\ ~IsRunLevel(run.logs[4])
    /\ IsRunLevel(run.logs[5])

----------------------------------------------------------------------------
(* Termination *)

\* Every handler that is called returns or raises, and the coroutine then
\* goes on: a step that can be taken is taken. The runs are those of the
\* chains, of the graphs with raising conditions, of the graphs over a
\* list and of the two-node graphs with simple edges only.
FairInit ==
    /\ Init
    /\ graph \in ChainGraphs \cup EvalGraphs \cup HeapGraphs
                  \cup {g \in SmallGraphs : g.conditional_edges = EmptyDict}
FairSpec == FairInit /\ [][Next]_vars /\ WF_vars(Next)

\* C25: whatever the graph and the state, the run reaches status completed
\* or failed, and neither iteration_count nor the number of handler calls
\* ever exceeds 100.
C25_RunEndsWithinCap ==
    /\ [](iteration_count <= 100 /\ Len(invoked) <= 100)
    /\ <>(pc = "done" /\ run.status \in {COMPLETED, FAILED})

\* A run over a cycle that was cut at the cap, after 100 handler calls.
C25_Witness ==
    /\ pc = "done"
    /\ run.status = FAILED
    /\ Len(invoked) = 100
    /\ iteration_count = 100
    /\ current_node # None
    /\ ~Acyclic(graph)

----------------------------------------------------------------------------
(* C26 *)

\* C26 (as claimed): the iteration-limit failure is recorded only for runs
\* that still have a successor to execute after max_iterations invocations:
\* a finished run whose last entry is the iteration-limit error has a
\* pending successor and was not stopped by the loop/terminate policy, and a
\* run whose 100th invocation returned and resolved no successor, or was
\* stopped by the policy, has status completed.
C26_LimitOnlyWithSuccessor ==
    (pc = "done" /\ Len(run.logs) > 0) =>
       /\ run.logs[Len(run.logs)] = RunLevelError(IterationLimitError)
             => (current_node # None /\ ~StoppedByPolicy)
       /\ (/\ Len(invoked) = max_iterations
           /\ Resolved
           /\ (current_node = None \/ StoppedByPolicy))
          => run.status = COMPLETED

----------------------------------------------------------------------------
(* C27 *)

\* The node-level entries of a log with one of the given statuses.
NodeEntries(logs, statuses) ==
    SelectSeq(logs, LAMBDA e : ~IsRunLevel(e) /\ e.status \in statuses)

\* The handler invocations of a run that are in progress: started (RUNNING
\* logged) and not ended (COMPLETED or FAILED logged).
InProgress(run_id) ==
    Len(NodeEntries(runs[run_id].logs, {RUNNING}))
       - Len(NodeEntries(runs[run_id].logs, {COMPLETED, FAILED}))

\* C27: within each run, however the runs interleave, at most one handler
\* invocation is in progress, and one is exactly when the run's coroutine
\* is suspended in that node's handler; a node is started only after the
\* node before it has its COMPLETED entry, and the entry after a RUNNING
\* entry is the COMPLETED or FAILED entry of the same node.
C27_OneHandlerAtATime ==
    \A run_id \in DOMAIN runs :
       LET logs == runs[run_id].logs
       IN  /\ InProgress(run_id) \in {0, 1}
           /\ InProgress(run_id) = 1 <=> tasks[run_id].pc = "invoke"
           /\ tasks[run_id].pc = "invoke" =>
                 /\ logs[Len(logs)].status = RUNNING
                 /\ logs[Len(logs)].node_name = tasks[run_id].current_node
           /\ \A i \in 1..Len(logs) :
                 logs[i].status = RUNNING =>
                    /\ i > 1 => /\ logs[i - 1].status = COMPLETED
                                /\ logs[i - 1].node_name # "ERROR"
                    /\ i < Len(logs) =>
                          /\ logs[i + 1].status \in {COMPLETED, FAILED}
                          /\ logs[i + 1].node_name = logs[i].node_name

\* Two runs both suspended in a handler, the first in its second node (its
\* first node's COMPLETED entry logged), the second in its first node.
C27_Witness ==
    /\ DOMAIN runs = {RunId(1), RunId(2)}
    /\ tasks[RunId(1)].pc = "invoke"
    /\ tasks[RunId(2)].pc = "invoke"
    /\ Len(runs[RunId(1)].logs) = 3
    /\ Len(runs[RunId(2)].logs) = 1
    /\ InProgress(RunId(1)) = 1
    /\ InProgress(RunId(2)) = 1

----------------------------------------------------------------------------
(* C28 *)

\* The names of the nodes of a graph, and the targets its simple and
\* conditional edges name.
NodeNames(g) == {g.nodes[i].name : i \in 1..Len(g.nodes)}
EdgeTargets(g) ==
    {g.edges[k] : k \in DOMAIN g.edges}
       \cup UNION {{g.conditional_edges[k][i].next_node :
                       i \in 1..Len(g.conditional_edges[k])} :
                   k \in DOMAIN g.conditional_edges}

\* Some edge of the graph names a node absent from the node list.
HasDanglingEdge(g) == EdgeTargets(g) \ NodeNames(g) # {}

\* The run ended with the node-not-found error for the node name.
NodeNotFoundFor(name) ==
    /\ pc = "done"
    /\ run.status = FAILED
    /\ Len(run.logs) > 0
    /\ run.logs[Len(run.logs)] = RunLevelError(NodeNotFoundError(name))

\* C28 (as claimed): a run of a graph with an edge to an absent node fails
\* with node-not-found only when that edge has been followed, after every
\* node before it was executed and logged (a RUNNING and a COMPLETED entry
\* per invocation, the last one's successor being the absent node), and
\* has status completed when it ends without the edge being followed (no
\* successor, or stopped by the loop/terminate policy).
C28_DanglingEdgeFailsWhenFollowed ==
    HasDanglingEdge(graph) =>
       /\ \A name \in EdgeTargets(graph) \cup {graph.start_node} :
             NodeNotFoundFor(name) =>
                /\ name \notin NodeNames(graph)
                /\ current_node = name
                /\ next_node = name
                /\ Len(invoked) > 0
                /\ Len(run.logs) = 2 * Len(invoked) + 1
                /\ LastNodeEntry.status = COMPLETED
                /\ LastNodeEntry.node_name = invoked[Len(invoked)]
                /\ name = GetNextNode(run.state, graph, invoked[Len(invoked)])
       /\ (pc = "done" /\ (current_node = None \/ StoppedByPolicy))
             => run.status = COMPLETED

----------------------------------------------------------------------------
(* C29 *)

\* C29: when a handler returns, state.data is the previous state.data
\* overridden by the entries of the returned value if that is a non-empty
\* mapping (the keys the mapping does not have keep their values), and is
\* the previous state.data if the returned value is empty, None or not a
\* mapping; no other step changes state.data, and state.metadata is at
\* every step what the handlers left in it: the engine never assigns it.
C29_ReturnIsPatch ==
    [][/\ pc # "invoke" => /\ run'.state.data = run.state.data
                            /\ run'.state.metadata = run.state.metadata
       /\ pc = "invoke" =>
             LET fn == NodeDef(graph, current_node).function_name
                 out == CallHandler(fn, run.state)
             IN  /\ run'.state.metadata = HandlerMetadata(fn, run.state)
                 /\ IF ~out.raised /\ ReturnsMapping(fn) /\ DOMAIN out.result # {}
                    THEN /\ DOMAIN run'.state.data =
                               DOMAIN run.state.data \cup DOMAIN out.result
                         /\ \A k \in DOMAIN out.result :
                               run'.state.data[k] = out.result[k]
                         /\ \A k \in DOMAIN run.state.data \ DOMAIN out.result :
                               run'.state.data[k] = run.state.data[k]
                    ELSE run'.state.data = run.state.data]_vars

\* A run over {score: 5, items: <list>} whose handlers returned a str and
\* then {score: 6}: score is overridden, items is kept.
C29_Witness ==
    /\ invoked = <<"collect", "report">>
    /\ NodeDef(graph, "collect").function_name = "text"
    /\ NodeDef(graph, "report").function_name = "increment"
    /\ run.status = COMPLETED
    /\ DOMAIN run.state.data = {"score", "items"}
    /\ run.state.data["score"] = 6
    /\ run.state.data["items"] = initial_state["items"]

----------------------------------------------------------------------------
(* C30 *)

\* C30 (as claimed): completed_at is unset while the run has no terminal
\* status and set once the run has one, completed or failed alike; it is
\* assigned in the step that makes the status terminal and in no other.
C30_CompletedAtOnTerminal ==
    /\ [](run.status \in {COMPLETED, FAILED} <=> run.completed_at # None)
    /\ [][run'.completed_at # run.completed_at
             <=> (run.status \notin {COMPLETED, FAILED}
                    /\ run'.status \in {COMPLETED, FAILED})]_vars

----------------------------------------------------------------------------
(* C31 *)

\* C31 (as claimed): a run that get_run returns, whose first node has been
\* started (its log is not empty) and whose status is not terminal, has
\* status running: pending is seen only before the first node starts.
C31_RunningWhileExecuting ==
    \A n \in 1..MaxRuns :
       \A r \in {GetRun(runs, RunId(n))[i] : i \in 1..Len(GetRun(runs, RunId(n)))} :
          (Len(r.logs) > 0 /\ r.status \notin {COMPLETED, FAILED})
             => r.status = RUNNING

----------------------------------------------------------------------------
(* C32 *)

\* The graph has simple edges only.
SimpleEdgesOnly(g) ==
    \A k \in DOMAIN g.conditional_edges : g.conditional_edges[k] = <<>>

\* The simple edge of the node points to the node itself.
HasSelfEdge(g, n) == SimpleEdge(g, n) = n

----------------------------------------------------------------------------
(* C33 *)

\* The run is one of the code review.
ReviewRun == graph = CodeReviewGraph

\* C33 (as claimed): a run of the code review that ends with status
\* completed has final_review as its last executed node; a run whose
\* calculate_quality computed a quality_score below 7 has gone back to
\* suggest_improvements and executed calculate_quality again.
C33_ReviewEndsAtFinalReview ==
    (ReviewRun /\ pc = "done" /\ run.status = COMPLETED) =>
       /\ invoked[Len(invoked)] = "final_review"
       /\ run.current_node = "final_review"
       /\ \A i \in 1..Len(invoked) :
             (invoked[i] = "calculate_quality"
                /\ run.logs[2 * i].state_snapshot["quality_score"] < 7)
             => /\ i + 2 <= Len(invoked)
                /\ invoked[i + 1] = "suggest_improvements"
                /\ invoked[i + 2] = "calculate_quality"

----------------------------------------------------------------------------
(* C34 *)

\* The i-th broadcast task is in the except branch of a failed send and
\* the run has no list in websocket_connections: the branch's
\* websocket_connections[run_id] raises KeyError, which ends the task.
RaisesKeyError(i) ==
    /\ i \in 1..Len(btasks)
    /\ btasks[i].pc = "sending"
    /\ btasks[i].outcome = "err"
    /\ btasks[i].run_id \notin DOMAIN websocket_connections

\* No list of websocket_connections holds a socket twice.
NoSocketTwice ==
    \A run_id \in DOMAIN websocket_connections :
       \A i, j \in 1..Len(websocket_connections[run_id]) :
          websocket_connections[run_id][i] = websocket_connections[run_id][j]
             => i = j

\* C34 (as claimed): however connections are added and removed while a
\* broadcast is in flight, no list of observers is corrupted and no
\* broadcast task ends in an error: a task whose send failed always finds
\* the list of its run, also when the last observer of the run was removed
\* while the send was pending.
C34_BroadcastNeverRaises ==
    /\ []NoSocketTwice
    /\ [][\A i \in 1..Len(btasks) :
             (btasks[i].pc = "sending" /\ btasks[i].outcome = "err"
                /\ btasks' = Ended(i))
             => ~RaisesKeyError(i)]_vars

----------------------------------------------------------------------------
(* C35 *)

\* Two runs of the stored graph, each with a websocket of its own: ws1
\* observes the first run, ws3 the second. The clients keep their sockets
\* open.
RoutedSockets == {"ws1", "ws3"}

RoutedInit == ObserversIdle(RoutedSockets)

RoutedNext ==
    \/ RunWorkflowCall(GraphId(1), MaxRuns)
    \/ \E n \in 1..MaxRuns : ResumeRun(RunId(n))
    \/ BroadcastStart
    \/ \E i \in 1..Len(btasks) : BroadcastSendDone(i)
    \/ \E w \in RoutedSockets : WsOpen(w)
    \/ \E w \in RoutedSockets : WsStep(w)

RoutedSpec == RoutedInit /\ [][RoutedNext]_vars

\* Socket w has been handed a broadcast message in the step.
GotLive(w) ==
    /\ Len(sockets'[w].received) = Len(sockets[w].received) + 1
    /\ sockets'[w].received[Len(sockets'[w].received)].origin = "live"

\* The i-th broadcast task has gone on to a send to socket w in the step.
SendsTo(i, w) ==
    /\ Len(btasks') = Len(btasks)
    /\ btasks'[i] # btasks[i]
    /\ btasks'[i].pc = "sending"
    /\ btasks'[i].connections[btasks'[i].idx] = w

\* C35: the list of a run in websocket_connections, and the copy a
\* broadcast task of that run iterates, hold only websockets that were
\* registered for that run; and a websocket is handed a broadcast message
\* only by a task of the run it observes, the message being that task's
\* entry, while the two runs execute concurrently.
C35_EntriesReachOwnObservers ==
    /\ [](/\ \A run_id \in DOMAIN websocket_connections :
               \A i \in 1..Len(websocket_connections[run_id]) :
                  RunOf(websocket_connections[run_id][i]) = run_id
          /\ \A i \in 1..Len(btasks) :
               \A j \in 1..Len(btasks[i].connections) :
                  RunOf(btasks[i].connections[j]) = btasks[i].run_id)
    /\ [][\A w \in DOMAIN sockets :
             GotLive(w) =>
                \E i \in 1..Len(btasks) :
                   /\ SendsTo(i, w)
                   /\ btasks'[i].run_id = RunOf(w)
                   /\ sockets'[w].received[Len(sockets'[w].received)].entry
                         = btasks'[i].entry]_vars

\* Both runs are suspended in their handlers, both websockets are
\* registered, and ws3 has been handed the first entry of the second run
\* by a broadcast while a broadcast task of the first run is still to run.
C35_Witness ==
    /\ DOMAIN runs = {RunId(1), RunId(2)}
    /\ tasks[RunId(1)].pc = "invoke"
    /\ tasks[RunId(2)].pc = "invoke"
    /\ DOMAIN websocket_connections = {RunId(1), RunId(2)}
    /\ \E k \in 1..Len(sockets["ws3"].received) :
          sockets["ws3"].received[k] = Message("log", 1, "live")
    /\ \E i \in 1..Len(btasks) : btasks[i].run_id = RunId(1)

----------------------------------------------------------------------------
(* C36 *)

\* C36 (as claimed): a websocket receives each log entry of its run at most
\* once, by the replay of the endpoint or by a broadcast: no two of the log
\* messages it received carry the same entry.
C36_EntryAtMostOnce ==
    \A w \in DOMAIN sockets :
       \A i, j \in Live(w) \cup Replayed(w) :
          sockets[w].received[i].entry = sockets[w].received[j].entry => i = j

----------------------------------------------------------------------------
(* C37 *)

\* The endpoint of socket w has called remove_websocket_connection, which
\* has returned.
Removed(w) == sockets[w].pc = "closed"

\* C37 (as claimed): once remove_websocket_connection has returned for a
\* websocket, no broadcast task sends an entry of the run to it: no task
\* goes on to a send_text call on it, whether the task was created or was
\* already iterating its copy of the list when the socket was removed.
C37_NoSendAfterRemove ==
    [][\A w \in DOMAIN sockets :
          Removed(w) => \A i \in 1..Len(btasks) : ~SendsTo(i, w)]_vars

----------------------------------------------------------------------------
(* C38 *)

\* The value a predicate reads for key in the state: the one of
\* state.metadata when the key is there, else the one of state.data.
MetadataFirst(state, key) ==
    IF key \in DOMAIN state.metadata THEN state.metadata[key] ELSE state.data[key]

\* The predicate is true when read that way (false when its evaluation
\* raises).
TrueMetadataFirst(state, condition) ==
    /\ condition.key \in DOMAIN state.data \cup DOMAIN state.metadata
    /\ \/ condition.op = ">=" /\ MetadataFirst(state, condition.key) >= condition.value
       \/ condition.op = "<" /\ MetadataFirst(state, condition.key) < condition.value

\* C38: a key that is in state.data and in state.metadata is read from
\* state.metadata by every predicate evaluation, in next-node resolution
\* and in the loop-policy pass alike: after a handler returned, the
\* successor is the target of the first predicate that is true read that
\* way (else the simple edge), and the loop condition is whether some
\* predicate is true read that way; so the two passes agree on every
\* predicate.
C38_MetadataShadowsData ==
    [][(pc = "invoke"
          /\ ~CallHandler(NodeDef(graph, current_node).function_name, run.state).raised)
       => LET conditions == ConditionalEdges(current_node)
              holding == {i \in 1..Len(conditions) :
                             TrueMetadataFirst(run'.state, conditions[i].condition)}
          IN  /\ \A i \in 1..Len(conditions) :
                    EvaluateCondition(run'.state, conditions[i].condition)
                       <=> i \in holding
              /\ next_node' = IF holding # {}
                              THEN conditions[First(holding)].next_node
                              ELSE SimpleEdge(graph, current_node)
              /\ next_node' \in visited_nodes =>
                    loop_condition' = PyBool(holding # {})
              /\ CheckLoopCondition(run'.state, graph, current_node)
                    <=> holding # {}]_vars

\* A finished run with score = 6 in state.data and score = 9 in
\* state.metadata whose node calculate has the one conditional edge
\* score < 7 -> calculate and no simple edge: the predicate was false, so
\* calculate ran once and the run completed there.
C38_Witness ==
    /\ pc = "done"
    /\ run.status = COMPLETED
    /\ "score" \in DOMAIN run.state.data
    /\ "score" \in DOMAIN run.state.metadata
    /\ run.state.data["score"] = 6
    /\ run.state.metadata["score"] = 9
    /\ ConditionalEdges("calculate")
          = <<[condition |-> Cond("score", "<", 7), next_node |-> "calculate"]>>
    /\ SimpleEdge(graph, "calculate") = None
    /\ invoked = <<"annotate", "calculate">>

----------------------------------------------------------------------------
(* C39 *)

\* get_memory_stats' active_websockets: sum(len(conns) for conns in
\* websocket_connections.values()).
RECURSIVE SumOfLengths(_, _)
SumOfLengths(wc, keys) ==
    IF keys = {} THEN 0
    ELSE LET k == CHOOSE x \in keys : TRUE
         IN  Len(wc[k]) + SumOfLengths(wc, keys \ {k})
ActiveWebsockets(wc) == SumOfLengths(wc, DOMAIN wc)

\* The websockets that are registered: held by the list of their run.
Registered ==
    {w \in DOMAIN sockets :
        /\ RunOf(w) \in DOMAIN websocket_connections
        /\ Holds(websocket_connections[RunOf(w)], w)}

\* C39 (as claimed): every run_id that is a key of websocket_connections
\* maps to a list of at least one websocket, whatever connections were
\* added, removed and pruned by broadcasts, and active_websockets is the
\* number of registered websockets.
C39_NoEmptyObserverList ==
    /\ \A run_id \in DOMAIN websocket_connections :
          Len(websocket_connections[run_id]) >= 1
    /\ ActiveWebsockets(websocket_connections) = Cardinality(Registered)

====
